---- MODULE Spec2Model ----
(***************************************************************************)
(* State-machine model of the listener fan-in / deduplication / account    *)
(* assignment pipeline: GroupMessageListener, MultiGroupListener and       *)
(* AccountAssigner.  Every await of the JavaScript code is a step          *)
(* boundary: an action is the code that runs between two awaits.           *)
(***************************************************************************)
EXTENDS Integers, Sequences, FiniteSets, TLC

(***************************************************************************)
(* Bounds of the model.                                                    *)
(***************************************************************************)
NumAccounts == 2
MaxTweets == 4
MaxBatch == 2
MaxLoops == 2
MaxResets == 1
PriorErrors == 3
SelMaxWorkload == 2
SelMaxTime == 2
NumGroups == 2
NumHot == 1
MaxLinks == 2
BulkSize == 500
MaxBulks == 2
MaxPolls == 1
MaxListenerPolls == 3
MaxInFlight == 1
MaxStarts == 2
MaxListenerStarts == 1
MaxPendingSaves == 2
MaxCleanups == 1
NumPollIds == 3
MaxIdleCalls == 1
MaxGroupOps == 2
MaxOverlap == 2
MaxManualChecks == 1

(***************************************************************************)
(* Program constants.                                                      *)
(***************************************************************************)
DefaultRetryAttempts == 3
ErrorThreshold == 5
DefaultMinTweetAge == 60
TrimThreshold == 1000
KeepRecent == 800
DefaultMaxLoad == 10000
DefaultPriority == 999

Accounts == 1..NumAccounts
Tweets == 1..MaxTweets
LoopIds == 1..MaxLoops

\* retry_attempts as configured; 0 stands for an unset (falsy) setting.
RetryAttemptsSettings == {0, 2}
\* Ages (seconds) a fetched tweet can have: both sides of the minimum age.
TweetAges == {DefaultMinTweetAge - 1, DefaultMinTweetAge}

\* lastUsed: null of a never-used account.
Null == -1

VARIABLES
  settings,   \* this.settings: monitoring.retry_attempts, notifications.*
  aa,         \* the AccountAssigner object: activeAccounts, taskQueue, processingQueue, stats
  loops,      \* the running processTaskQueue invocations: position and task in flight
  initPc,     \* position of initialize(): "idle", "running", "resolved", "rejected"
  initPending,\* accounts whose auth.initialize() has not settled yet
  emitted,    \* events emitted and lines logged by the assigner in the last step
  resets,     \* number of resetStats() calls so far
  offered,    \* number of tweet ids handed to assignTweets so far
  selected,   \* result of the last selectBestAccount() applied in SpecSelect
  gl,         \* the GroupMessageListener object of each group
  mg,         \* the MultiGroupListener object
  file,       \* the processed-tweets file, one path shared by every listener
  saves,      \* saveProcessedTweets() calls whose write has not settled yet
  mgEmitted,  \* events emitted by listeners and aggregator in the last step, in order
  history,    \* per listener, the ids its newTweetsFound events carried once / again
  use,        \* starts, polls and bulk pages used so far
  sys         \* the TwitterMonitorSystem object: position of start(), subscriptions

aaVars == <<settings, aa, loops, initPc, initPending, emitted, resets, offered, selected, sys>>

lsnVars == <<gl, mg, file, saves, mgEmitted, history, use, sys>>

(***************************************************************************)
(* GroupMessageListener and MultiGroupListener: objects after construction.*)
(***************************************************************************)
Groups == 1..NumGroups

\* tweet ids the group pages keep showing
HotIds == 1..NumHot

\* the GroupMessageListener constructor; pc and stopPc are the positions of
\* a start() and a stop() invocation, polling and reconnecting count the
\* timer callbacks waiting for getGroupNotifications() and for reconnect()
NewListener ==
  [auth |-> "null", isListening |-> FALSE, listenerInterval |-> FALSE,
   processedTweets |-> <<>>,
   stats |-> [totalMessages |-> 0, tweetsFound |-> 0, lastCheck |-> "null", errors |-> 0],
   attached |-> FALSE, pc |-> "idle", stopPc |-> "idle", polling |-> 0, reconnecting |-> 0]

\* stats.groupStats has no entry for the group
NoGroupStats ==
  [present |-> FALSE, tweetsFound |-> 0, errors |-> 0, lastCheck |-> "null", status |-> "none"]

\* the entry initializeGroupListener writes: status "active" with no error,
\* status "failed" with one
GroupStatsEntry(status, errors) ==
  [present |-> TRUE, tweetsFound |-> 0, errors |-> errors, lastCheck |-> "null", status |-> status]

\* a group_accounts list with one entry for every id of ids, in id order
ConfigsOf(ids, enabled) ==
  LET Listed(g) == g \in ids
      order == SelectSeq([i \in 1..NumGroups |-> i], Listed)
  IN  [i \in 1..Len(order) |-> [id |-> order[i], enabled |-> order[i] \in enabled]]

\* the MultiGroupListener constructor for a configuration enabling the
\* groups of enabled; op, starting and stopping are the position of a
\* start() or stop() invocation, groupOp[g] and opResult[g] the position
\* and the outcome of an addGroup, removeGroup or restartGroup of group g
NewMulti(enabled) ==
  [enabled |-> enabled, groupListeners |-> {}, isRunning |-> FALSE,
   groupConfigs |-> ConfigsOf(Groups, enabled),
   groupOp |-> [g \in Groups |-> "none"], opResult |-> [g \in Groups |-> "none"],
   stats |-> [totalGroups |-> 0, activeGroups |-> 0, totalTweetsFound |-> 0,
              totalErrors |-> 0, startTime |-> "null"],
   groupStats |-> [g \in Groups |-> NoGroupStats],
   op |-> "none", starting |-> {}, stopping |-> {}]

\* data/processed_tweets.json
NoFile == [exists |-> FALSE, processed_tweets |-> <<>>]

DedupFile(ids) == [exists |-> TRUE, processed_tweets |-> ids]

\* once, again and relayed are the ids the group's present listener emitted,
\* emitted more than once and had re-emitted by the aggregator; stopped are
\* the ids it had emitted when its stop() came to its end, earlier the ids
\* emitted by the group's former listeners before theirs; authFailed tells
\* that the present listener has emitted authFailed
NoHistory ==
  [g \in Groups |-> [once |-> {}, again |-> {}, relayed |-> {}, stopped |-> {}, earlier |-> {},
                     authFailed |-> FALSE]]

\* the history of a listener constructed for a group whose earlier listener
\* had history h
NextRun(h) ==
  [once |-> {}, again |-> {}, relayed |-> {}, stopped |-> {},
   earlier |-> h.earlier \cup h.stopped, authFailed |-> FALSE]

NoUse ==
  [starts |-> 0, polls |-> 0, bulks |-> 0, cleanups |-> 0, startsAgain |-> 0, stopsAgain |-> 0,
   groupOps |-> 0, manualChecks |-> 0]

\* the TwitterMonitorSystem constructor; handed lists the batches passed to
\* assignTweets in the last step
NoSystem ==
  [pc |-> "idle", isRunning |-> FALSE, subscribed |-> FALSE, totalTweetsProcessed |-> 0,
   handed |-> <<>>]

\* no listener and no aggregator at work: the assigner on its own
NoListeners ==
  /\ gl = [g \in Groups |-> NewListener]
  /\ mg = NewMulti({})
  /\ file = NoFile
  /\ saves = {}
  /\ mgEmitted = <<>>
  /\ history = NoHistory
  /\ use = NoUse
  /\ sys = NoSystem

----------------------------------------------------------------------------
(***************************************************************************)
(* AccountAssigner: helpers on the activeAccounts Map (insertion-ordered). *)
(***************************************************************************)
AccountIds(accts) == {accts[i].accountId : i \in 1..Len(accts)}

HasAccount(accts, id) == id \in AccountIds(accts)

IndexOf(accts, id) == CHOOSE i \in 1..Len(accts) : accts[i].accountId = id

GetAccount(accts, id) == accts[IndexOf(accts, id)]

NewAccount(id) ==
  [accountId |-> id, status |-> "active", lastUsed |-> Null,
   tasksAssigned |-> 0, repliesSent |-> 0, errors |-> 0, workload |-> 0]

NewAccountStats == [tasksAssigned |-> 0, repliesSent |-> 0, errors |-> 0, status |-> "active"]

EmptyStats ==
  [totalAssignments |-> 0, totalRepliesSent |-> 0, totalErrors |-> 0, accountStats |-> <<>>]

\* new Date(lastUsed).getTime(), 0 for a null lastUsed
LastUsedTime(a) == IF a.lastUsed = Null THEN 0 ELSE a.lastUsed

\* a comparator that forgets the lastUsed tie-break
CompareAccountsByWorkload(a, b) == a.workload - b.workload

\* comparator of selectBestAccount's sort
CompareAccounts(a, b) ==
  IF a.workload # b.workload
    THEN a.workload - b.workload
    ELSE LastUsedTime(a) - LastUsedTime(b)

\* Array.prototype.sort is stable: x goes after every element not greater than it
RECURSIVE InsertSorted(_, _)
InsertSorted(sorted, x) ==
  IF Len(sorted) = 0 THEN <<x>>
  ELSE IF CompareAccounts(Head(sorted), x) > 0 THEN <<x>> \o sorted
  ELSE <<Head(sorted)>> \o InsertSorted(Tail(sorted), x)

RECURSIVE SortAccounts(_)
SortAccounts(s) ==
  IF Len(s) = 0 THEN <<>>
  ELSE InsertSorted(SortAccounts(SubSeq(s, 1, Len(s) - 1)), s[Len(s)])

IsActive(a) == a.status = "active"

NoAccount == [found |-> FALSE, accountId |-> 0]

\* selectBestAccount has not been applied to the pool yet (SpecSelect)
NotApplied == [applied |-> FALSE, result |-> NoAccount]

\* a selection that forgets the status filter
selectBestAccountAnyStatus(accts) ==
  IF Len(accts) = 0
    THEN NoAccount
    ELSE [found |-> TRUE, accountId |-> SortAccounts(accts)[1].accountId]

selectBestAccount(accts) ==
  LET availableAccounts == SelectSeq(accts, IsActive)
  IN IF Len(availableAccounts) = 0
       THEN NoAccount
       ELSE [found |-> TRUE, accountId |-> SortAccounts(availableAccounts)[1].accountId]

decreaseWorkload(A, id) ==
  IF HasAccount(A.activeAccounts, id) /\ GetAccount(A.activeAccounts, id).workload > 0
    THEN [A EXCEPT !.activeAccounts[IndexOf(A.activeAccounts, id)].workload = @ - 1]
    ELSE A


\* settings.monitoring?.retry_attempts || 3
MaxRetries == IF settings.retry_attempts = 0 THEN DefaultRetryAttempts ELSE settings.retry_attempts

\* settings.notifications?.min_tweet_age_seconds || 60
MinTweetAge == IF settings.min_tweet_age_seconds = 0 THEN DefaultMinTweetAge ELSE settings.min_tweet_age_seconds

NoTask == [tweetInfo |-> 0, accountId |-> 0, retryCount |-> 0]

IdleLoop == [pc |-> "none", task |-> NoTask]

\* the pacing delay: the task object is no longer referenced by the loop
PacingLoop == [pc |-> "pacing", task |-> NoTask]

(***************************************************************************)
(* The operators below take and return S = [aa, emitted]: the assigner     *)
(* object and the events / log lines it has produced in the current step.  *)
(***************************************************************************)
Event(type, tweet, account) == [type |-> type, tweet |-> tweet, account |-> account]

Emit(S, e) == [S EXCEPT !.emitted = @ \cup {e}]

\* an error handler that demotes the worker without counting its errors
handleTaskErrorUncounted(S, task) ==
  LET accountId == task.accountId
      has == HasAccount(S.aa.activeAccounts, accountId)
      i == IndexOf(S.aa.activeAccounts, accountId)
      S2 == [S EXCEPT !.aa = decreaseWorkload(@, accountId)]
  IN  IF task.retryCount + 1 < MaxRetries THEN S2
      ELSE IF has
      THEN Emit(Emit([S2 EXCEPT !.aa.activeAccounts[i].status = "error",
                                !.aa.stats.accountStats[accountId].status = "error"],
                     Event("taskFailed", task.tweetInfo, accountId)),
                Event("accountError", 0, accountId))
      ELSE Emit(S2, Event("taskFailed", task.tweetInfo, accountId))

handleTaskError(S, task) ==
  LET accountId == task.accountId
      tweet == task.tweetInfo
      has == HasAccount(S.aa.activeAccounts, accountId)
      i == IndexOf(S.aa.activeAccounts, accountId)
      A1 == IF has
              THEN decreaseWorkload(
                     [S.aa EXCEPT !.activeAccounts[i].errors = @ + 1,
                                  !.stats.accountStats[accountId].errors = @ + 1],
                     accountId)
              ELSE S.aa
      A2 == [A1 EXCEPT !.stats.totalErrors = @ + 1]
      S2 == [S EXCEPT !.aa = A2]
      retried == [task EXCEPT !.retryCount = @ + 1]
      newAccount == selectBestAccount(A2.activeAccounts)
      j == IndexOf(A2.activeAccounts, newAccount.accountId)
      S3 == IF retried.retryCount < MaxRetries
              THEN IF newAccount.found /\ newAccount.accountId # accountId
                     THEN Emit([S2 EXCEPT !.aa.activeAccounts[j].workload = @ + 1,
                                          !.aa.taskQueue = Append(@,
                                             [retried EXCEPT !.accountId = newAccount.accountId])],
                               Event("reassigned", tweet, newAccount.accountId))
                     ELSE S2
              ELSE Emit(S2, Event("taskFailed", tweet, accountId))
      S4 == IF has /\ S3.aa.activeAccounts[i].errors >= ErrorThreshold
              THEN Emit([S3 EXCEPT !.aa.activeAccounts[i].status = "error",
                                   !.aa.stats.accountStats[accountId].status = "error"],
                        Event("accountError", 0, accountId))
              ELSE S3
  IN S4

\* shouldProcessTweet: own is tweetDetails.author_id === tweetInfo.account_id
shouldProcessTweet(own, age) ==
  IF settings.ignore_own_tweets /\ own THEN FALSE
  ELSE IF age < MinTweetAge THEN FALSE
  ELSE TRUE

\* a processTask that tests only that the account exists
BeginTaskAnyStatus(S, task) ==
  IF ~HasAccount(S.aa.activeAccounts, task.accountId)
    THEN [S |-> Emit(S, Event("skipped", task.tweetInfo, task.accountId)), loop |-> PacingLoop]
    ELSE [S |-> S, loop |-> [pc |-> "details", task |-> task]]

\* processTask from its entry to its first await
BeginTask(S, task) ==
  IF ~HasAccount(S.aa.activeAccounts, task.accountId)
       \/ GetAccount(S.aa.activeAccounts, task.accountId).status # "active"
    THEN [S |-> Emit(S, Event("skipped", task.tweetInfo, task.accountId)), loop |-> PacingLoop]
    ELSE [S |-> S, loop |-> [pc |-> "details", task |-> task]]

\* a loop turn that takes the newest task (pop) instead of the oldest (shift)
LoopTurnFromBack(S) ==
  IF Len(S.aa.taskQueue) > 0
    THEN BeginTask([S EXCEPT !.aa.taskQueue = SubSeq(@, 1, Len(@) - 1)],
                   S.aa.taskQueue[Len(S.aa.taskQueue)])
    ELSE [S |-> [S EXCEPT !.aa.processingQueue = FALSE], loop |-> IdleLoop]

\* one turn of the while loop of processTaskQueue, up to the next await
LoopTurn(S) ==
  IF Len(S.aa.taskQueue) > 0
    THEN BeginTask([S EXCEPT !.aa.taskQueue = Tail(@)], Head(S.aa.taskQueue))
    ELSE [S |-> [S EXCEPT !.aa.processingQueue = FALSE], loop |-> IdleLoop]

FreeLoops(lps) == {l \in LoopIds : lps[l].pc = "none"}

\* a guard that forgets the processingQueue flag
DrainStartsWheneverQueued(S) == Len(S.aa.taskQueue) > 0

\* guard of processTaskQueue
DrainStarts(S) == ~S.aa.processingQueue /\ Len(S.aa.taskQueue) > 0

\* processTaskQueue from its call to its first await
processTaskQueue(S, lps) ==
  IF DrainStarts(S)
    THEN LET l == CHOOSE x \in FreeLoops(lps) : \A y \in FreeLoops(lps) : x <= y
             r == LoopTurn([S EXCEPT !.aa.processingQueue = TRUE])
         IN [S |-> r.S, loops |-> [lps EXCEPT ![l] = r.loop]]
    ELSE [S |-> S, loops |-> lps]

\* the for loop of assignTweets
RECURSIVE AssignEach(_, _)
AssignEach(S, tweets) ==
  IF Len(tweets) = 0 THEN S
  ELSE LET tweet == Head(tweets)
           selectedAccount == selectBestAccount(S.aa.activeAccounts)
           i == IndexOf(S.aa.activeAccounts, selectedAccount.accountId)
           S1 == IF selectedAccount.found
                   THEN Emit(
                          [S EXCEPT !.aa.taskQueue = Append(@,
                                       [tweetInfo |-> tweet,
                                        accountId |-> selectedAccount.accountId,
                                        retryCount |-> 0]),
                                    !.aa.stats.totalAssignments = @ + 1,
                                    !.aa.activeAccounts[i].tasksAssigned = @ + 1,
                                    !.aa.activeAccounts[i].workload = @ + 1,
                                    !.aa.stats.accountStats[selectedAccount.accountId].tasksAssigned = @ + 1],
                          Event("assigned", tweet, selectedAccount.accountId))
                   ELSE Emit(S, Event("noAccount", tweet, 0))
       IN AssignEach(S1, Tail(tweets))

\* the state at the start of a step: nothing emitted yet
Cur == [aa |-> aa, emitted |-> {}]

Commit(S) == aa' = S.aa /\ emitted' = S.emitted

----------------------------------------------------------------------------
(***************************************************************************)
(* AccountAssigner: actions.                                               *)
(***************************************************************************)
\* the AccountAssigner constructor
NewAssigner ==
  [activeAccounts |-> <<>>, taskQueue |-> <<>>, processingQueue |-> FALSE, stats |-> EmptyStats]

SettingsChoices ==
  [retry_attempts : RetryAttemptsSettings, ignore_own_tweets : BOOLEAN,
   min_tweet_age_seconds : {0}]

InitAssigner ==
  /\ settings \in SettingsChoices
  /\ aa = NewAssigner
  /\ loops = [l \in LoopIds |-> IdleLoop]
  /\ initPc = "idle"
  /\ initPending = {}
  /\ emitted = {}
  /\ resets = 0
  /\ offered = 0
  /\ selected = NotApplied
  /\ NoListeners

\* initialize(): every configured account starts auth.initialize()
Initialize ==
  /\ initPc = "idle"
  /\ initPc' = "running"
  /\ initPending' = Accounts
  /\ emitted' = {}
  /\ UNCHANGED <<settings, aa, loops, resets, offered, selected, lsnVars>>

\* continuation of initialize() after Promise.all: it emits and returns, whatever
\* the number of active accounts
initializeDone(S) ==
  [S |-> Emit(S, [type |-> "accountsInitialized", activeCount |-> Len(S.aa.activeAccounts)]),
   pc |-> "resolved"]

\* auth.initialize() of one account settles: true, or false / an exception
InitAccountSettled(a, success) ==
  /\ initPc = "running"
  /\ a \in initPending
  /\ initPending' = initPending \ {a}
  /\ LET S1 == IF success
                 THEN [Cur EXCEPT !.aa.activeAccounts = Append(@, NewAccount(a)),
                                  !.aa.stats.accountStats = (a :> NewAccountStats) @@ @]
                 ELSE Cur
     IN IF initPending' = {}
          THEN Commit(initializeDone(S1).S) /\ initPc' = initializeDone(S1).pc
          ELSE Commit(S1) /\ UNCHANGED initPc
  /\ UNCHANGED <<settings, loops, resets, offered, selected, lsnVars>>

\* batches handed to assignTweets: distinct ids never handed before; ids are only
\* compared for equality, so they are numbered in their order of arrival
Batches(used) ==
  {[i \in 1..n |-> used + i] : n \in 1..(IF MaxTweets - used < MaxBatch
                                           THEN MaxTweets - used ELSE MaxBatch)}

AssignTweets(tweets) ==
  /\ initPc = "resolved"
  /\ LET r == processTaskQueue(AssignEach(Cur, tweets), loops)
     IN /\ (DrainStarts(AssignEach(Cur, tweets)) => FreeLoops(loops) # {})
        /\ Commit(r.S)
        /\ loops' = r.loops
  /\ offered' = offered + Len(tweets)
  /\ UNCHANGED <<settings, initPc, initPending, resets, selected, lsnVars>>

\* processTask resumes after await getTweetDetails
DetailsSettled(l, threw, own, age) ==
  /\ loops[l].pc = "details"
  /\ LET task == loops[l].task
     IN IF threw
          THEN /\ Commit(handleTaskError(Cur, task))
               /\ loops' = [loops EXCEPT ![l] = PacingLoop]
          ELSE IF ~shouldProcessTweet(own, age)
            THEN /\ Commit(Emit([Cur EXCEPT !.aa = decreaseWorkload(aa, task.accountId)],
                                Event("declined", task.tweetInfo, task.accountId)))
                 /\ loops' = [loops EXCEPT ![l] = PacingLoop]
            ELSE /\ loops' = [loops EXCEPT ![l].pc = "generate"]
                 /\ Commit(Cur)
  /\ UNCHANGED <<settings, initPc, initPending, resets, offered, selected, lsnVars>>

\* new Date(): tasks end at least one pacing delay (1000 ms) apart, so the clock
\* read at the end of a task is later than every timestamp stored before
Now(accts) ==
  1 + (CHOOSE m \in {0} \cup {LastUsedTime(accts[i]) : i \in 1..Len(accts)} :
         \A i \in 1..Len(accts) : LastUsedTime(accts[i]) <= m)

\* lines 210-212 of processTask: account.lastUsed = new Date(); decreaseWorkload(accountId)
FinishTask(S, task) ==
  LET i == IndexOf(S.aa.activeAccounts, task.accountId)
  IN IF ~HasAccount(S.aa.activeAccounts, task.accountId) THEN S
     ELSE [S EXCEPT !.aa = decreaseWorkload(
                        [S.aa EXCEPT !.activeAccounts[i].lastUsed = Now(S.aa.activeAccounts)],
                        task.accountId)]

\* processTask resumes after await aiClient.generateReply (which never throws)
GenerateSettled(l, success) ==
  /\ loops[l].pc = "generate"
  /\ LET task == loops[l].task
     IN IF success
          THEN /\ loops' = [loops EXCEPT ![l].pc = "post"]
               /\ Commit(Cur)
          ELSE /\ Commit(FinishTask(handleTaskError(Cur, task), task))
               /\ loops' = [loops EXCEPT ![l] = PacingLoop]
  /\ UNCHANGED <<settings, initPc, initPending, resets, offered, selected, lsnVars>>

PostOutcomes == {"threw", "posted", "empty"}

\* a processTask that treats a posted reply as an error after it has
\* emitted replySuccess
PostSettledThenFailing(l, outcome) ==
  /\ loops[l].pc = "post"
  /\ LET task == loops[l].task
     IN CASE outcome = "threw" ->
               Commit(handleTaskError(Cur, task))
          [] outcome = "posted" ->
               Commit(handleTaskError(
                 Emit([Cur EXCEPT !.aa.stats.totalRepliesSent = @ + 1],
                      Event("replySuccess", task.tweetInfo, task.accountId)), task))
          [] outcome = "empty" ->
               Commit(FinishTask(Cur, task))
  /\ loops' = [loops EXCEPT ![l] = PacingLoop]
  /\ UNCHANGED <<settings, initPc, initPending, resets, offered, selected, lsnVars>>

\* processTask resumes after await account.auth.postTweet
PostSettled(l, outcome) ==
  /\ loops[l].pc = "post"
  /\ LET task == loops[l].task
         i == IndexOf(aa.activeAccounts, task.accountId)
     IN CASE outcome = "threw" ->
               Commit(handleTaskError(Cur, task))
          [] outcome = "posted" ->
               Commit(FinishTask(
                 Emit(IF HasAccount(aa.activeAccounts, task.accountId)
                      THEN [Cur EXCEPT !.aa.stats.totalRepliesSent = @ + 1,
                                       !.aa.activeAccounts[i].repliesSent = @ + 1,
                                       !.aa.stats.accountStats[task.accountId].repliesSent = @ + 1]
                      ELSE [Cur EXCEPT !.aa.stats.totalRepliesSent = @ + 1,
                                       !.aa.stats.accountStats[task.accountId].repliesSent = @ + 1],
                      Event("replySuccess", task.tweetInfo, task.accountId)), task))
          [] outcome = "empty" ->
               Commit(FinishTask(Cur, task))
  /\ loops' = [loops EXCEPT ![l] = PacingLoop]
  /\ UNCHANGED <<settings, initPc, initPending, resets, offered, selected, lsnVars>>

\* a loop that ends after the pacing delay without looking at the queue
PacingDoneLeaving(l) ==
  /\ loops[l].pc = "pacing"
  /\ Commit([Cur EXCEPT !.aa.processingQueue = FALSE])
  /\ loops' = [loops EXCEPT ![l] = IdleLoop]
  /\ UNCHANGED <<settings, initPc, initPending, resets, offered, selected, lsnVars>>

\* the 1000 ms pacing delay elapses and the while loop takes its next turn
PacingDone(l) ==
  /\ loops[l].pc = "pacing"
  /\ LET r == LoopTurn(Cur)
     IN /\ Commit(r.S)
        /\ loops' = [loops EXCEPT ![l] = r.loop]
  /\ UNCHANGED <<settings, initPc, initPending, resets, offered, selected, lsnVars>>

\* a reset that also gives every worker status active again
resetStatsAndStatus ==
  /\ resets < MaxResets
  /\ resets' = resets + 1
  /\ emitted' = {}
  /\ aa' = [aa EXCEPT
              !.activeAccounts =
                 [i \in 1..Len(@) |-> [@[i] EXCEPT !.tasksAssigned = 0, !.repliesSent = 0,
                                                   !.errors = 0, !.status = "active"]],
              !.stats =
                 [EmptyStats EXCEPT !.accountStats =
                    [a \in AccountIds(aa.activeAccounts) |-> NewAccountStats]]]
  /\ UNCHANGED <<settings, loops, initPc, initPending, offered, selected, lsnVars>>

resetStats ==
  /\ resets < MaxResets
  /\ resets' = resets + 1
  /\ emitted' = {}
  /\ aa' = [aa EXCEPT
              !.activeAccounts =
                 [i \in 1..Len(@) |-> [@[i] EXCEPT !.tasksAssigned = 0, !.repliesSent = 0,
                                                   !.errors = 0]],
              !.stats =
                 [EmptyStats EXCEPT !.accountStats =
                    [a \in AccountIds(aa.activeAccounts) |->
                       [NewAccountStats EXCEPT
                          !.status = GetAccount(aa.activeAccounts, a).status]]]]
  /\ UNCHANGED <<settings, loops, initPc, initPending, offered, selected, lsnVars>>

NextAssigner ==
  \/ Initialize
  \/ \E a \in Accounts, success \in BOOLEAN : InitAccountSettled(a, success)
  \/ \E tweets \in Batches(offered) : AssignTweets(tweets)
  \/ \E l \in LoopIds, threw, own \in BOOLEAN, age \in TweetAges : DetailsSettled(l, threw, own, age)
  \/ \E l \in LoopIds, success \in BOOLEAN : GenerateSettled(l, success)
  \/ \E l \in LoopIds, outcome \in PostOutcomes : PostSettled(l, outcome)
  \/ \E l \in LoopIds : PacingDone(l)
  \/ resetStats

vars == <<settings, aa, loops, initPc, initPending, emitted, resets, offered, selected,
         gl, mg, file, saves, mgEmitted, history, use, sys>>

SpecAssigner == InitAssigner /\ [][NextAssigner]_vars

(***************************************************************************)
(* The assigner after PriorErrors single-tweet batches whose details fetch *)
(* failed: each went to the first account of the Map and, the retry        *)
(* selecting that same account again, was dropped.                         *)
(***************************************************************************)
WornAssigner(k) ==
  [NewAssigner EXCEPT
     !.activeAccounts =
        <<[NewAccount(1) EXCEPT !.tasksAssigned = k, !.errors = k], NewAccount(2)>>,
     !.stats =
        [totalAssignments |-> k, totalRepliesSent |-> 0, totalErrors |-> k,
         accountStats |-> (1 :> [NewAccountStats EXCEPT !.tasksAssigned = k, !.errors = k])
                            @@ (2 :> NewAccountStats)]]

DefaultSettings ==
  [retry_attempts |-> 0, ignore_own_tweets |-> FALSE, min_tweet_age_seconds |-> 0]

InitWorn ==
  /\ settings = DefaultSettings
  /\ aa = WornAssigner(PriorErrors)
  /\ loops = [l \in LoopIds |-> IdleLoop]
  /\ initPc = "resolved"
  /\ initPending = {}
  /\ emitted = {}
  /\ resets = 0
  /\ offered = 0
  /\ selected = NotApplied
  /\ NoListeners

NextWorn ==
  \/ \E tweets \in Batches(offered) : AssignTweets(tweets)
  \/ \E l \in LoopIds, threw, own \in BOOLEAN, age \in TweetAges : DetailsSettled(l, threw, own, age)
  \/ \E l \in LoopIds, success \in BOOLEAN : GenerateSettled(l, success)
  \/ \E l \in LoopIds, outcome \in PostOutcomes : PostSettled(l, outcome)
  \/ \E l \in LoopIds : PacingDone(l)
  \/ resetStats

SpecWorn == InitWorn /\ [][NextWorn]_vars

\* a loop is awaiting the external call c
Awaiting(c) == \E l \in LoopIds : loops[l].pc = c

\* the await of the external call c settles (DetailsSettled,
\* GenerateSettled, PostSettled): the loop leaves the await
Settles(c) == \E l \in LoopIds : loops[l].pc = c /\ loops'[l].pc # c

\* weak fairness of the settling of call c, written out: the settle action
\* of c is enabled exactly when a loop awaits c
CallReturns(c) == []<>(~Awaiting(c)) \/ []<><<Settles(c)>>_vars

\* no external call hangs: every awaited getTweetDetails, generateReply,
\* postTweet and pacing delay settles
NoCallHangs ==
  /\ CallReturns("details")
  /\ CallReturns("generate")
  /\ CallReturns("post")
  /\ WF_vars(\E l \in LoopIds : PacingDone(l))

SpecDrain == InitWorn /\ [][NextWorn]_vars /\ NoCallHangs

(***************************************************************************)
(* The same wear on an assigner whose initialize() got only the first      *)
(* account's session: it is the only worker in the Map.                    *)
(***************************************************************************)
WornAlone(k) ==
  [NewAssigner EXCEPT
     !.activeAccounts = <<[NewAccount(1) EXCEPT !.tasksAssigned = k, !.errors = k]>>,
     !.stats =
        [totalAssignments |-> k, totalRepliesSent |-> 0, totalErrors |-> k,
         accountStats |-> (1 :> [NewAccountStats EXCEPT !.tasksAssigned = k, !.errors = k])]]

InitWornAlone ==
  /\ settings = DefaultSettings
  /\ aa = WornAlone(PriorErrors)
  /\ loops = [l \in LoopIds |-> IdleLoop]
  /\ initPc = "resolved"
  /\ initPending = {}
  /\ emitted = {}
  /\ resets = 0
  /\ offered = 0
  /\ selected = NotApplied
  /\ NoListeners

SpecWornAlone == InitWornAlone /\ [][NextWorn]_vars

(***************************************************************************)
(* The worn assigner with cleanup() and a new initialize(), as the stop    *)
(* and start of TwitterMonitorSystem use them, here to recover a demoted   *)
(* worker: cleanup() is called after initialize() has resolved, when some  *)
(* worker has status error and no task awaits an answer; initialize()      *)
(* again once cleanup() has ended and no task of the former accounts is    *)
(* still awaiting one.                                                     *)
(***************************************************************************)
Answering == {l \in LoopIds : loops[l].pc \in {"details", "generate", "post"}}

\* the end of cleanup(): activeAccounts.clear(), taskQueue = [],
\* processingQueue = false
cleanupDone(A) == [A EXCEPT !.activeAccounts = <<>>, !.taskQueue = <<>>, !.processingQueue = FALSE]

\* cleanup() up to its first await: auth.cleanup() of the first account
cleanup ==
  /\ initPc = "resolved"
  /\ Answering = {}
  /\ \E i \in 1..Len(aa.activeAccounts) : aa.activeAccounts[i].status = "error"
  /\ use.cleanups < MaxCleanups
  /\ use' = [use EXCEPT !.cleanups = @ + 1]
  /\ emitted' = {}
  /\ initPc' = "cleanup"
  /\ initPending' = AccountIds(aa.activeAccounts)
  /\ aa' = aa
  /\ UNCHANGED <<settings, loops, resets, offered, selected,
                 gl, mg, file, saves, mgEmitted, history, sys>>

\* auth.cleanup() of the next account of the Map settled, by returning or
\* by throwing
CleanupAccountSettled(a) ==
  /\ initPc = "cleanup"
  /\ a \in initPending
  /\ \A b \in initPending : IndexOf(aa.activeAccounts, a) <= IndexOf(aa.activeAccounts, b)
  /\ initPending' = initPending \ {a}
  /\ emitted' = {}
  /\ IF initPending' = {}
     THEN aa' = cleanupDone(aa) /\ initPc' = "idle"
     ELSE aa' = aa /\ initPc' = initPc
  /\ UNCHANGED <<settings, loops, resets, offered, selected, lsnVars>>

InitializeAgain == Answering = {} /\ Initialize

NextLifecycle ==
  \/ \E tweets \in Batches(offered) : AssignTweets(tweets)
  \/ \E l \in LoopIds, threw, own \in BOOLEAN, age \in TweetAges : DetailsSettled(l, threw, own, age)
  \/ \E l \in LoopIds, success \in BOOLEAN : GenerateSettled(l, success)
  \/ \E l \in LoopIds, outcome \in PostOutcomes : PostSettled(l, outcome)
  \/ \E l \in LoopIds : PacingDone(l)
  \/ resetStats
  \/ cleanup
  \/ \E a \in Accounts : CleanupAccountSettled(a)
  \/ InitializeAgain
  \/ \E a \in Accounts, success \in BOOLEAN : InitAccountSettled(a, success)

SpecLifecycle == InitWorn /\ [][NextLifecycle]_vars

(***************************************************************************)
(* An assigner whose owner calls cleanup() at any moment, the drain loop   *)
(* awaiting a task or its pacing delay included.                           *)
(***************************************************************************)
\* cleanup() up to its first await; with an empty Map it runs to its end
cleanupAnytime ==
  /\ initPc = "resolved"
  /\ use.cleanups < MaxCleanups
  /\ use' = [use EXCEPT !.cleanups = @ + 1]
  /\ emitted' = {}
  /\ IF aa.activeAccounts = <<>>
     THEN aa' = cleanupDone(aa) /\ initPc' = "idle" /\ initPending' = {}
     ELSE aa' = aa /\ initPc' = "cleanup" /\ initPending' = AccountIds(aa.activeAccounts)
  /\ UNCHANGED <<settings, loops, resets, offered, selected,
                 gl, mg, file, saves, mgEmitted, history, sys>>

NextShutdown ==
  \/ \E tweets \in Batches(offered) : AssignTweets(tweets)
  \/ \E l \in LoopIds, threw, own \in BOOLEAN, age \in TweetAges : DetailsSettled(l, threw, own, age)
  \/ \E l \in LoopIds, success \in BOOLEAN : GenerateSettled(l, success)
  \/ \E l \in LoopIds, outcome \in PostOutcomes : PostSettled(l, outcome)
  \/ \E l \in LoopIds : PacingDone(l)
  \/ cleanupAnytime
  \/ \E a \in Accounts : CleanupAccountSettled(a)

SpecShutdown == InitWorn /\ [][NextShutdown]_vars

(***************************************************************************)
(* An assigner that is used again after cleanup(): initialize() and        *)
(* assignTweets() follow a cleanup() called at any moment.                 *)
(***************************************************************************)
NextReuse ==
  \/ NextShutdown
  \/ Initialize
  \/ \E a \in Accounts, success \in BOOLEAN : InitAccountSettled(a, success)

SpecReuse == InitWorn /\ [][NextReuse]_vars


----------------------------------------------------------------------------
(***************************************************************************)
(* selectBestAccount as a pure function: the pool is drawn from bounded    *)
(* sets, in every Map order, and the function is applied to it.            *)
(***************************************************************************)
SelAccountIds == {1, 2, 3}

SelTimes == {Null} \cup (1..SelMaxTime)

SelAccount(id, st, w, lu) == [NewAccount(id) EXCEPT !.status = st, !.workload = w, !.lastUsed = lu]

\* pools of distinct accounts; two used accounts never carry the same timestamp
SelPools ==
  {p \in UNION {[1..n -> {SelAccount(id, st, w, lu) :
                            id \in SelAccountIds, st \in {"active", "error"},
                            w \in 0..SelMaxWorkload, lu \in SelTimes}] :
                 n \in 0..Cardinality(SelAccountIds)} :
     \A i, j \in 1..Len(p) :
        i # j => /\ p[i].accountId # p[j].accountId
                 /\ (p[i].lastUsed # Null => p[i].lastUsed # p[j].lastUsed)}

InitSelect ==
  /\ settings = DefaultSettings
  /\ aa \in {[NewAssigner EXCEPT !.activeAccounts = p] : p \in SelPools}
  /\ loops = [l \in LoopIds |-> IdleLoop]
  /\ initPc = "resolved"
  /\ initPending = {}
  /\ emitted = {}
  /\ resets = 0
  /\ offered = 0
  /\ selected = NotApplied
  /\ NoListeners

ApplySelect ==
  /\ ~selected.applied
  /\ selected' = [applied |-> TRUE, result |-> selectBestAccount(aa.activeAccounts)]
  /\ UNCHANGED <<settings, aa, loops, initPc, initPending, emitted, resets, offered, lsnVars>>

NextSelect == ApplySelect

SpecSelect == InitSelect /\ [][NextSelect]_vars


----------------------------------------------------------------------------
(***************************************************************************)
(* GroupMessageListener and MultiGroupListener: operators.  They thread    *)
(* M = [gl, mg, saves, emitted]; where a call can throw, the result is     *)
(* [M, threw].  EventEmitter.emit runs the handlers synchronously and a    *)
(* handler's exception propagates to the code that called emit.            *)
(***************************************************************************)
Range(s) == {s[i] : i \in 1..Len(s)}

InSeq(s, x) == \E i \in 1..Len(s) : s[i] = x

\* Array.prototype.slice(0, n): the n oldest entries
FirstN(s, n) == IF Len(s) <= n THEN s ELSE SubSeq(s, 1, n)

\* Array.prototype.slice(-n): the n most recently inserted entries
LastN(s, n) == IF Len(s) <= n THEN s ELSE SubSeq(s, Len(s) - n + 1, Len(s))

LEvent(g, type, tweets) ==
  [by |-> "listener", type |-> type, group |-> g, tweets |-> tweets, active |-> {}]

\* the priority of the group_accounts entry of each group; 0 stands for an
\* entry without priority
ConfigPriority == [g \in Groups |-> IF g = 1 THEN 0 ELSE g - 1]

\* groupConfig.priority || 999
OrDefault(priority) == IF priority = 0 THEN DefaultPriority ELSE priority

\* the sourceGroup the aggregator puts on the tweets of group g; the group
\* name is left out
sourceGroup(g) == [id |-> g, priority |-> OrDefault(ConfigPriority[g])]

NoSourceGroup == [id |-> 0, priority |-> 0]

MEvent(type, g, tweets, active) ==
  [by |-> "aggregator", type |-> type, group |-> g, tweets |-> tweets, active |-> active,
   sourceGroup |-> NoSourceGroup]

\* the aggregator's newTweetsFound: the tweets carry the sourceGroup
TaggedEvent(g, tweets) ==
  [MEvent("newTweetsFound", g, tweets, {}) EXCEPT !.sourceGroup = sourceGroup(g)]

Ret(M, threw) == [M |-> M, threw |-> threw]

\* MultiGroupListener emits: the event is recorded in emission order
MultiEmit(M, type, g, tweets, active) ==
  [M EXCEPT !.emitted = Append(@, MEvent(type, g, tweets, active))]

HasStats(M, g) == M.mg.groupStats[g].present

\* the handlers setupGroupListenerEvents registers on the listener of group
\* g: each one dereferences stats.groupStats[g] and throws a TypeError when
\* the entry does not exist
OnListenerEvent(M, g, type, tweets) ==
  CASE type = "newTweetsFound" ->
         LET M1 == [M EXCEPT !.mg.stats.totalTweetsFound = @ + Len(tweets)]
         IN  IF ~HasStats(M1, g) THEN Ret(M1, TRUE)
             ELSE Ret([M1 EXCEPT !.mg.groupStats[g].tweetsFound = @ + Len(tweets),
                                 !.emitted = Append(@, TaggedEvent(g, tweets))], FALSE)
    [] type = "messageCheckCompleted" ->
         IF ~HasStats(M, g) THEN Ret(M, TRUE)
         ELSE Ret(MultiEmit([M EXCEPT !.mg.groupStats[g].lastCheck = "time"],
                            "groupCheckCompleted", g, <<>>, {}), FALSE)
    [] type = "messageCheckError" ->
         LET M1 == [M EXCEPT !.mg.stats.totalErrors = @ + 1]
         IN  IF ~HasStats(M1, g) THEN Ret(M1, TRUE)
             ELSE Ret(MultiEmit([M1 EXCEPT !.mg.groupStats[g].errors = @ + 1],
                                "groupCheckError", g, <<>>, {}), FALSE)
    [] type = "authRecovered" ->
         IF ~HasStats(M, g) THEN Ret(M, TRUE)
         ELSE Ret(MultiEmit([M EXCEPT !.mg.groupStats[g].status = "active"],
                            "groupAuthRecovered", g, <<>>, {}), FALSE)
    [] type = "authFailed" ->
         IF ~HasStats(M, g) THEN Ret(M, TRUE)
         ELSE Ret(MultiEmit([M EXCEPT !.mg.groupStats[g].status = "auth_failed"],
                            "groupAuthFailed", g, <<>>, {}), FALSE)
    [] type = "listenerStopped" ->
         IF ~HasStats(M, g) THEN Ret(M, TRUE)
         ELSE Ret(MultiEmit([M EXCEPT !.mg.groupStats[g].status = "stopped"],
                            "groupStopped", g, <<>>, {}), FALSE)
    [] OTHER -> Ret(M, FALSE)

\* emit that stops running the handlers once any listener has counted an error
ListenerEmitUntilAnyError(M, g, type, tweets) ==
  LET M1 == [M EXCEPT !.emitted = Append(@, LEvent(g, type, tweets))]
  IN  IF M1.gl[g].attached /\ \A h \in Groups : M1.gl[h].stats.errors = 0
      THEN OnListenerEvent(M1, g, type, tweets) ELSE Ret(M1, FALSE)

\* this.emit(type, data) of the listener of group g
ListenerEmit(M, g, type, tweets) ==
  LET M1 == [M EXCEPT !.emitted = Append(@, LEvent(g, type, tweets))]
  IN  IF M1.gl[g].attached THEN OnListenerEvent(M1, g, type, tweets) ELSE Ret(M1, FALSE)

\* saveProcessedTweets(): the data is read from the Set when the call is
\* made, the write settles later; awaiter is "load" or "stop" when the
\* caller awaits the write, "none" when it does not
saveProcessedTweets(M, g, awaiter) ==
  [M EXCEPT !.saves = @ \cup {[data |-> M.gl[g].processedTweets, group |-> g, awaiter |-> awaiter]}]

\* the ids of s, each at its first occurrence
RECURSIVE FirstOccurrences(_, _)
FirstOccurrences(kept, s) ==
  IF s = <<>> THEN kept
  ELSE FirstOccurrences(IF InSeq(kept, Head(s)) THEN kept ELSE Append(kept, Head(s)), Tail(s))

\* processTweetLinks without the has() test of line 203: every returned id is new
ScanLinksUnfiltered(had, links) ==
  IF Cardinality(Range(links)) = Len(links) THEN links ELSE FirstOccurrences(<<>>, links)

\* the loop of processTweetLinks: the ids of links that are not in the Set
\* (had), each taken when the loop meets it first, as the loop adds it to
\* the Set then
ScanLinks(had, links) ==
  LET NotHad(tweetId) == tweetId \notin had
      fresh == SelectSeq(links, NotHad)
  IN  IF Cardinality(Range(fresh)) = Len(fresh) THEN fresh ELSE FirstOccurrences(<<>>, fresh)

processTweetLinks(M, g, links) ==
  LET newTweets == ScanLinks(Range(M.gl[g].processedTweets), links)
      M1 == [M EXCEPT !.gl[g].processedTweets = @ \o newTweets,
                      !.gl[g].stats.tweetsFound = @ + Len(newTweets)]
      R == IF Len(newTweets) > 0
           THEN ListenerEmit(saveProcessedTweets(M1, g, "none"), g, "newTweetsFound", newTweets)
           ELSE Ret(M1, FALSE)
  IN  IF R.threw \/ Len(R.M.gl[g].processedTweets) <= TrimThreshold THEN R
      ELSE LET M2 == [R.M EXCEPT !.gl[g].processedTweets = LastN(@, KeepRecent)]
           IN  Ret(IF Len(newTweets) > 0 THEN saveProcessedTweets(M2, g, "none") ELSE M2, FALSE)

PollRet(M, threw, reconnect) == [M |-> M, threw |-> threw, reconnect |-> reconnect]

\* a catch block that takes every error for an authentication error
CheckCatchAlwaysReconnecting(M, g, authError) ==
  LET R == ListenerEmit([M EXCEPT !.gl[g].stats.errors = @ + 1], g, "messageCheckError", <<>>)
  IN  IF R.threw THEN PollRet(R.M, TRUE, FALSE)
      ELSE PollRet(R.M, FALSE, R.M.gl[g].auth # "null")

\* the catch block of checkGroupMessages; an authentication error goes on
\* to handleAuthError, which awaits auth.reconnect() when there is an auth
CheckCatch(M, g, authError) ==
  LET R == ListenerEmit([M EXCEPT !.gl[g].stats.errors = @ + 1], g, "messageCheckError", <<>>)
  IN  IF R.threw THEN PollRet(R.M, TRUE, FALSE)
      ELSE PollRet(R.M, FALSE, authError /\ R.M.gl[g].auth # "null")

PollOutcomes == {"links", "error", "authError"}

\* checkGroupMessages after getGroupNotifications() settled
PollBody(M, g, outcome, links) ==
  IF outcome = "links"
  THEN LET M1 == [M EXCEPT !.gl[g].stats.totalMessages = @ + 1]
           R == IF Len(links) > 0 THEN processTweetLinks(M1, g, links) ELSE Ret(M1, FALSE)
       IN  IF R.threw THEN CheckCatch(R.M, g, FALSE)
           ELSE LET R2 == ListenerEmit(R.M, g, "messageCheckCompleted", <<>>)
                IN  IF R2.threw THEN CheckCatch(R2.M, g, FALSE)
                    ELSE PollRet(R2.M, FALSE, FALSE)
  ELSE CheckCatch(M, g, outcome = "authError")

\* handleAuthError after auth.reconnect() settled; what a handler throws
\* inside the try is caught and answered with another authFailed event
AuthErrorBody(M, g, success) ==
  LET M1 == [M EXCEPT !.gl[g].auth = IF @ = "null" THEN @ ELSE IF success THEN "ready" ELSE "created"]
      R == ListenerEmit(M1, g, IF success THEN "authRecovered" ELSE "authFailed", <<>>)
  IN  IF R.threw THEN ListenerEmit(R.M, g, "authFailed", <<>>) ELSE R

\* start() returned to MultiGroupListener.start: Promise.all is settled when
\* no initializeGroupListener is left
startDone(M) ==
  MultiEmit([M EXCEPT !.mg.stats.activeGroups = Cardinality(M.mg.groupListeners),
                      !.mg.op = "none"],
            "multiGroupStarted", 0, <<>>, M.mg.groupListeners)

\* initializeGroupListener after groupListener.start() settled
initGroupSettled(M, g, started) ==
  LET M1 == IF started
            THEN [M EXCEPT !.mg.groupListeners = @ \cup {g},
                           !.mg.groupStats[g] = GroupStatsEntry("active", 0)]
            ELSE MultiEmit([M EXCEPT !.mg.groupStats[g] = GroupStatsEntry("failed", 1)],
                           "groupInitError", g, <<>>, {})
      M2 == [M1 EXCEPT !.mg.starting = @ \ {g}]
  IN  IF M2.mg.starting = {} THEN startDone(M2) ELSE M2

\* initializeGroupListener after groupListener.start() settled, when
\* addGroup or restartGroup called it
groupInitialized(M, g, started) ==
  IF started
  THEN [M EXCEPT !.mg.groupListeners = @ \cup {g},
                 !.mg.groupStats[g] = GroupStatsEntry("active", 0)]
  ELSE MultiEmit([M EXCEPT !.mg.groupStats[g] = GroupStatsEntry("failed", 1)],
                 "groupInitError", g, <<>>, {})

\* the listener of group g was constructed by initializeGroupListener
InitializedByOp(M, g) == M.mg.groupOp[g] \in {"add", "restartInit"}

\* the catch block of GroupMessageListener.start, and its caller
StartFailed(M, g) ==
  LET R == ListenerEmit([M EXCEPT !.gl[g].isListening = FALSE, !.gl[g].pc = "idle"],
                        g, "listenerError", <<>>)
  IN  IF g \in R.M.mg.starting THEN initGroupSettled(R.M, g, FALSE)
      ELSE IF InitializedByOp(R.M, g) THEN groupInitialized(R.M, g, FALSE)
      ELSE R.M

\* the end of GroupMessageListener.start, and its caller
StartSucceeded(M, g) ==
  LET R == ListenerEmit([M EXCEPT !.gl[g].listenerInterval = TRUE, !.gl[g].pc = "idle"],
                        g, "listenerStarted", <<>>)
  IN  IF g \in R.M.mg.starting THEN initGroupSettled(R.M, g, TRUE)
      ELSE IF InitializedByOp(R.M, g) THEN groupInitialized(R.M, g, TRUE)
      ELSE R.M

\* start() after loadProcessedTweets(): new RettwitAuth, await initialize()
BeginAuth(M, g) == [M EXCEPT !.gl[g].auth = "created", !.gl[g].pc = "auth"]

\* GroupMessageListener.stop() up to its first await
stopListener(M, g) ==
  IF ~M.gl[g].isListening THEN M
  ELSE saveProcessedTweets([M EXCEPT !.gl[g].isListening = FALSE,
                                     !.gl[g].listenerInterval = FALSE,
                                     !.gl[g].stopPc = "save"], g, "stop")

RECURSIVE stopEach(_, _)
stopEach(M, gs) ==
  IF gs = {} THEN M
  ELSE LET g == CHOOSE x \in gs : TRUE IN stopEach(stopListener(M, g), gs \ {g})

\* MultiGroupListener.stop() after Promise.all of the stops
stopDone(M) ==
  MultiEmit([M EXCEPT !.mg.groupListeners = {}, !.mg.op = "none"],
            "multiGroupStopped", 0, <<>>, {})

\* the end of GroupMessageListener.stop, and its caller
StopFinished(M, g) ==
  LET M1 == [M EXCEPT !.gl[g].stopPc = "idle"]
  IN  IF g \in M1.mg.stopping
      THEN LET M2 == [M1 EXCEPT !.mg.stopping = @ \ {g}]
           IN  IF M2.mg.stopping = {} THEN stopDone(M2) ELSE M2
      ELSE M1

\* stop() after its save settled: auth.cleanup() is awaited when there is
\* an auth, then listenerStopped is emitted; what its handler throws is
\* caught and answered with listenerError
StopEmit(M, g) ==
  LET R == ListenerEmit(M, g, "listenerStopped", <<>>)
  IN  StopFinished(IF R.threw THEN ListenerEmit(R.M, g, "listenerError", <<>>).M ELSE R.M, g)

StopAfterSave(M, g) ==
  IF M.gl[g].auth # "null" THEN [M EXCEPT !.gl[g].stopPc = "cleanup"] ELSE StopEmit(M, g)

----------------------------------------------------------------------------
(***************************************************************************)
(* GroupMessageListener and MultiGroupListener: actions.                   *)
(***************************************************************************)
MCur == [gl |-> gl, mg |-> mg, saves |-> saves, emitted |-> <<>>]

\* the ids of the newTweetsFound events the listener of group g emitted
RECURSIVE FoundBy(_, _)
FoundBy(evs, g) ==
  IF evs = <<>> THEN <<>>
  ELSE LET e == Head(evs)
       IN  (IF e.by = "listener" /\ e.group = g /\ e.type = "newTweetsFound"
            THEN e.tweets ELSE <<>>) \o FoundBy(Tail(evs), g)

\* the ids of group g the aggregator re-emitted as newTweetsFound
RECURSIVE RelayedBy(_, _)
RelayedBy(evs, g) ==
  IF evs = <<>> THEN {}
  ELSE LET e == Head(evs)
       IN  (IF e.by = "aggregator" /\ e.group = g /\ e.type = "newTweetsFound"
            THEN Range(e.tweets) ELSE {}) \cup RelayedBy(Tail(evs), g)

\* stop() of the listener of group g came to its end
StoppedBy(evs, g) ==
  \E i \in 1..Len(evs) :
     evs[i].by = "listener" /\ evs[i].group = g /\ evs[i].type = "listenerStopped"

\* the listener of group g emitted authFailed
AuthFailedBy(evs, g) ==
  \E i \in 1..Len(evs) :
     evs[i].by = "listener" /\ evs[i].group = g /\ evs[i].type = "authFailed"

Recorded(h, found, relayed, stopped, authFailed) ==
  [relayed |-> h.relayed \cup relayed,
   authFailed |-> h.authFailed \/ authFailed,
   stopped |-> IF stopped THEN h.once ELSE h.stopped,
   earlier |-> h.earlier,
   once |-> h.once \cup Range(found),
   again |-> h.again \cup (h.once \cap Range(found))
             \cup (IF Cardinality(Range(found)) = Len(found) THEN {}
                   ELSE {x \in Range(found) :
                           Cardinality({i \in 1..Len(found) : found[i] = x}) > 1})]

MCommit(M) ==
  /\ gl' = M.gl
  /\ mg' = M.mg
  /\ saves' = M.saves
  /\ mgEmitted' = M.emitted
  /\ history' = [g \in Groups |-> Recorded(history[g], FoundBy(M.emitted, g),
                                            RelayedBy(M.emitted, g),
                                            StoppedBy(M.emitted, g),
                                            AuthFailedBy(M.emitted, g))]

\* the work of an earlier start() or stop() of the listener has ended
Quiet(g) ==
  /\ gl[g].pc = "idle"
  /\ gl[g].stopPc = "idle"
  /\ gl[g].polling = 0
  /\ gl[g].reconnecting = 0

\* a program calls start() on a GroupMessageListener of its own
ListenerStart(g, budget) ==
  /\ Quiet(g)
  /\ ~gl[g].isListening
  /\ use.starts < budget
  /\ use' = [use EXCEPT !.starts = @ + 1]
  /\ gl' = [gl EXCEPT ![g].pc = "load"]
  /\ mgEmitted' = <<>>
  /\ history' = [history EXCEPT ![g] = NextRun(@)]
  /\ UNCHANGED <<mg, file, saves, aaVars>>

\* loadProcessedTweets: pathExists and readJson settled
LoadSettled(g, threw) ==
  /\ gl[g].pc = "load"
  /\ MCommit(IF threw
             THEN BeginAuth([MCur EXCEPT !.gl[g].processedTweets = <<>>], g)
             ELSE IF file.exists
             THEN BeginAuth([MCur EXCEPT !.gl[g].processedTweets =
                                            LastN(file.processed_tweets, DefaultMaxLoad)], g)
             ELSE saveProcessedTweets([MCur EXCEPT !.gl[g].pc = "loadSave"], g, "load"))
  /\ UNCHANGED <<file, use, aaVars>>

\* ensureDir and writeJson of a saveProcessedTweets() settled; a failed
\* write is logged; the caller awaiting the save goes on
SaveSettled(s, written) ==
  /\ s \in saves
  /\ file' = IF written THEN DedupFile(s.data) ELSE file
  /\ LET M == [MCur EXCEPT !.saves = @ \ {s}]
     IN  MCommit(CASE s.awaiter = "load" -> BeginAuth(M, s.group)
                   [] s.awaiter = "stop" -> StopAfterSave(M, s.group)
                   [] OTHER -> M)
  /\ UNCHANGED <<use, aaVars>>

\* start() without the test of lines 44-46: the first check starts whatever
\* auth.initialize() returned
AuthSettledUnchecked(g, success) ==
  /\ gl[g].pc = "auth"
  /\ MCommit([MCur EXCEPT !.gl[g].auth = "ready", !.gl[g].isListening = TRUE,
                          !.gl[g].stats.lastCheck = "time", !.gl[g].pc = "poll"])
  /\ UNCHANGED <<file, use, aaVars>>

\* auth.initialize() settled; on success the first checkGroupMessages()
\* starts and awaits getGroupNotifications()
AuthSettled(g, success) ==
  /\ gl[g].pc = "auth"
  /\ MCommit(IF success
             THEN [MCur EXCEPT !.gl[g].auth = "ready", !.gl[g].isListening = TRUE,
                               !.gl[g].stats.lastCheck = "time", !.gl[g].pc = "poll"]
             ELSE StartFailed(MCur, g))
  /\ UNCHANGED <<file, use, aaVars>>

\* a bulk page is served once
UsePage(links) ==
  use' = IF Len(links) > MaxLinks THEN [use EXCEPT !.bulks = @ + 1] ELSE use

\* getGroupNotifications() of the first check settled, start() goes on; the
\* extraction takes long enough for all but MaxPendingSaves - 2 of the
\* writes started earlier to have settled
FirstPollStep(g, outcome, links) ==
  /\ gl[g].pc = "poll"
  /\ Cardinality(saves) + 2 <= MaxPendingSaves
  /\ LET R == PollBody(MCur, g, outcome, links)
     IN  MCommit(IF R.threw THEN StartFailed(R.M, g)
                 ELSE IF R.reconnect THEN [R.M EXCEPT !.gl[g].pc = "reconnect"]
                 ELSE StartSucceeded(R.M, g))
  /\ UsePage(links)
  /\ file' = file

FirstPollSettled(g, outcome, links) == FirstPollStep(g, outcome, links) /\ UNCHANGED aaVars

\* auth.reconnect() of the first check settled, start() goes on
ReconnectSettled(g, success) ==
  /\ gl[g].pc = "reconnect"
  /\ LET R == AuthErrorBody(MCur, g, success)
     IN  MCommit(IF R.threw THEN StartFailed(R.M, g) ELSE StartSucceeded(R.M, g))
  /\ UNCHANGED <<file, use, aaVars>>

\* the setInterval callback: checkGroupMessages() up to its await
TimerTick(g, budget) ==
  /\ gl[g].listenerInterval
  /\ gl[g].isListening
  /\ gl[g].auth # "null"
  /\ gl[g].polling < MaxInFlight
  /\ use.polls < budget
  /\ use' = [use EXCEPT !.polls = @ + 1]
  /\ MCommit([MCur EXCEPT !.gl[g].stats.lastCheck = "time", !.gl[g].polling = @ + 1])
  /\ UNCHANGED <<file, aaVars>>

\* getGroupNotifications() of a timer check settled (as slow as that of the
\* first one); what escapes checkGroupMessages rejects the callback promise
PollSettled(g, outcome, links) ==
  /\ gl[g].polling > 0
  /\ Cardinality(saves) + 2 <= MaxPendingSaves
  /\ LET R == PollBody([MCur EXCEPT !.gl[g].polling = @ - 1], g, outcome, links)
     IN  MCommit(IF R.reconnect THEN [R.M EXCEPT !.gl[g].reconnecting = @ + 1] ELSE R.M)
  /\ UsePage(links)
  /\ UNCHANGED <<file, aaVars>>

\* auth.reconnect() of a timer check settled
PollReconnectSettled(g, success) ==
  /\ gl[g].reconnecting > 0
  /\ MCommit(AuthErrorBody([MCur EXCEPT !.gl[g].reconnecting = @ - 1], g, success).M)
  /\ UNCHANGED <<file, use, aaVars>>

\* a program calls stop() on a GroupMessageListener of its own
ListenerStop(g) ==
  /\ gl[g].isListening
  /\ gl[g].stopPc = "idle"
  /\ g \notin mg.groupListeners
  /\ ~gl[g].attached
  /\ MCommit(stopListener(MCur, g))
  /\ UNCHANGED <<file, use, aaVars>>

\* auth.cleanup() settled, stop() goes on
CleanupSettled(g) ==
  /\ gl[g].stopPc = "cleanup"
  /\ MCommit(StopEmit([MCur EXCEPT !.gl[g].auth = "null"], g))
  /\ UNCHANGED <<file, use, aaVars>>

\* MultiGroupListener.start(): a GroupMessageListener is constructed for
\* every enabled group, the handlers are registered on it and its start()
\* runs up to the first await
MultiStartStep ==
  /\ mg.op = "none"
  /\ ~mg.isRunning
  /\ \A g \in Groups : Quiet(g)
  /\ use.starts < MaxStarts
  /\ use' = [use EXCEPT !.starts = @ + 1]
  /\ LET M1 == [MCur EXCEPT
                  !.mg.isRunning = TRUE, !.mg.op = "start",
                  !.mg.stats.startTime = "time",
                  !.mg.stats.totalGroups = Len(mg.groupConfigs),
                  !.mg.starting = mg.enabled,
                  !.gl = [g \in Groups |->
                            IF g \in mg.enabled
                            THEN [NewListener EXCEPT !.attached = TRUE, !.pc = "load"]
                            ELSE gl[g]]]
         M2 == IF mg.enabled = {} THEN startDone(M1) ELSE M1
     IN  /\ gl' = M2.gl
         /\ mg' = M2.mg
         /\ saves' = M2.saves
         /\ mgEmitted' = M2.emitted
  /\ history' = [g \in Groups |-> IF g \in mg.enabled THEN NextRun(history[g]) ELSE history[g]]

MultiStart == MultiStartStep /\ UNCHANGED <<file, aaVars>>

\* MultiGroupListener.stop(): stop() of every listener of the Map runs up
\* to its first await
MultiStop ==
  /\ mg.op = "none"
  /\ mg.isRunning
  /\ LET M1 == stopEach([MCur EXCEPT !.mg.isRunning = FALSE, !.mg.op = "stop"],
                        mg.groupListeners)
         M2 == [M1 EXCEPT !.mg.stopping = {g \in mg.groupListeners : M1.gl[g].stopPc # "idle"}]
     IN  MCommit(IF M2.mg.stopping = {} THEN stopDone(M2) ELSE M2)
  /\ UNCHANGED <<file, use, aaVars>>

\* extraction results: every list of at most MaxLinks hot ids
HotPages == UNION {[1..n -> HotIds] : n \in 0..MaxLinks}

\* the n-th page of BulkSize ids never seen before
BulkPage(n) == [i \in 1..BulkSize |-> NumHot + (n - 1) * BulkSize + i]

ListenerPages ==
  HotPages \cup (IF use.bulks < MaxBulks THEN {BulkPage(use.bulks + 1)} ELSE {})

(***************************************************************************)
(* One GroupMessageListener used on its own, as test-group-listener.js     *)
(* does: no handler of an aggregator is registered on it.                  *)
(***************************************************************************)
InitListener ==
  /\ settings = DefaultSettings
  /\ aa = NewAssigner
  /\ loops = [l \in LoopIds |-> IdleLoop]
  /\ initPc = "idle"
  /\ initPending = {}
  /\ emitted = {}
  /\ resets = 0
  /\ offered = 0
  /\ selected = NotApplied
  /\ gl = [g \in Groups |-> NewListener]
  /\ mg = NewMulti({})
  /\ file = NoFile
  /\ saves = {}
  /\ mgEmitted = <<>>
  /\ history = NoHistory
  /\ use = NoUse
  /\ sys = NoSystem

NextListener ==
  \/ ListenerStart(1, MaxListenerStarts)
  \/ \E threw \in BOOLEAN : LoadSettled(1, threw)
  \/ \E s \in saves, written \in BOOLEAN : SaveSettled(s, written)
  \/ \E success \in BOOLEAN : AuthSettled(1, success)
  \/ \E outcome \in PollOutcomes, links \in ListenerPages :
        /\ outcome # "links" => links = <<>>
        /\ FirstPollSettled(1, outcome, links)
  \/ \E success \in BOOLEAN : ReconnectSettled(1, success)
  \/ TimerTick(1, MaxListenerPolls)
  \/ \E outcome \in PollOutcomes, links \in ListenerPages :
        /\ outcome # "links" => links = <<>>
        /\ PollSettled(1, outcome, links)
  \/ \E success \in BOOLEAN : PollReconnectSettled(1, success)
  \/ ListenerStop(1)
  \/ CleanupSettled(1)

SpecListener == InitListener /\ [][NextListener]_vars

(***************************************************************************)
(* The MultiGroupListener with its configured groups.                      *)
(***************************************************************************)
InitMulti ==
  /\ settings = DefaultSettings
  /\ aa = NewAssigner
  /\ loops = [l \in LoopIds |-> IdleLoop]
  /\ initPc = "idle"
  /\ initPending = {}
  /\ emitted = {}
  /\ resets = 0
  /\ offered = 0
  /\ selected = NotApplied
  /\ gl = [g \in Groups |-> NewListener]
  /\ mg \in {NewMulti(enabled) : enabled \in SUBSET Groups}
  /\ file = NoFile
  /\ saves = {}
  /\ mgEmitted = <<>>
  /\ history = NoHistory
  /\ use = NoUse
  /\ sys = NoSystem

NextMulti ==
  \/ MultiStart
  \/ MultiStop
  \/ \E g \in Groups, threw \in BOOLEAN : LoadSettled(g, threw)
  \/ \E s \in saves, written \in BOOLEAN : SaveSettled(s, written)
  \/ \E g \in Groups, success \in BOOLEAN : AuthSettled(g, success)
  \/ \E g \in Groups, outcome \in PollOutcomes, links \in HotPages :
        /\ outcome # "links" => links = <<>>
        /\ FirstPollSettled(g, outcome, links)
  \/ \E g \in Groups, success \in BOOLEAN : ReconnectSettled(g, success)
  \/ \E g \in Groups : TimerTick(g, MaxPolls)
  \/ \E g \in Groups, outcome \in PollOutcomes, links \in HotPages :
        /\ outcome # "links" => links = <<>>
        /\ PollSettled(g, outcome, links)
  \/ \E g \in Groups, success \in BOOLEAN : PollReconnectSettled(g, success)
  \/ \E g \in Groups : CleanupSettled(g)

SpecMulti == InitMulti /\ [][NextMulti]_vars

\* the sort of getGroupsByPriority; the priorities of ConfigPriority differ,
\* so the order does not depend on the order of the Map
RECURSIVE SortByPriority(_)
SortByPriority(ids) ==
  IF ids = {} THEN <<>>
  ELSE LET first == CHOOSE a \in ids : \A b \in ids :
                       OrDefault(ConfigPriority[a]) - OrDefault(ConfigPriority[b]) <= 0
       IN  <<first>> \o SortByPriority(ids \ {first})

getGroupsByPriority(M) ==
  LET order == SortByPriority(M.mg.groupListeners)
  IN  [i \in 1..Len(order) |->
         [id |-> order[i],
          priority |-> ConfigPriority[order[i]],
          status |-> IF M.mg.groupStats[order[i]].present
                     THEN M.mg.groupStats[order[i]].status ELSE "unknown"]]

(***************************************************************************)
(* addGroup, removeGroup and restartGroup on a running MultiGroupListener. *)
(***************************************************************************)
\* the listener initializeGroupListener constructs, its start() up to the
\* first await
StartingListener == [NewListener EXCEPT !.attached = TRUE, !.pc = "load"]

\* addGroup from the push on groupConfigs to its end
addDone(M, g, enabled) ==
  LET configs == Append(M.mg.groupConfigs, [id |-> g, enabled |-> enabled])
  IN  MultiEmit([M EXCEPT !.mg.groupConfigs = configs,
                          !.mg.enabled = IF enabled THEN @ \cup {g} ELSE @,
                          !.mg.stats.totalGroups = Len(configs),
                          !.mg.groupOp[g] = "none",
                          !.mg.opResult[g] = "resolved"],
                "groupAdded", g, <<>>, {})

\* addGroup(groupConfig) up to its first await
addGroup(M, g, enabled) ==
  IF g \in M.mg.groupListeners THEN [M EXCEPT !.mg.opResult[g] = "rejected"]
  ELSE IF M.mg.isRunning /\ enabled
  THEN [M EXCEPT !.gl[g] = StartingListener,
                 !.mg.groupOp[g] = "add", !.mg.opResult[g] = "pending"]
  ELSE addDone(M, g, enabled)

\* removeGroup that clears the registry and the statistics as stop() and
\* resetStats() do
removeDoneClearingAll(M, g) ==
  MultiEmit([M EXCEPT !.mg.groupListeners = {},
                      !.mg.groupConfigs = <<>>,
                      !.mg.enabled = {},
                      !.mg.groupStats = [h \in Groups |-> NoGroupStats],
                      !.mg.stats.totalGroups = 0,
                      !.mg.stats.activeGroups = 0,
                      !.mg.groupOp[g] = "none",
                      !.mg.opResult[g] = "resolved"],
            "groupRemoved", g, <<>>, {})

\* removeGroup from the filter of groupConfigs to its end
removeDone(M, g) ==
  LET Others(config) == config.id # g
      configs == SelectSeq(M.mg.groupConfigs, Others)
      listeners == M.mg.groupListeners \ {g}
  IN  MultiEmit([M EXCEPT !.mg.groupListeners = listeners,
                          !.mg.groupConfigs = configs,
                          !.mg.enabled = @ \ {g},
                          !.mg.groupStats[g] = NoGroupStats,
                          !.mg.stats.totalGroups = Len(configs),
                          !.mg.stats.activeGroups = Cardinality(listeners),
                          !.mg.groupOp[g] = "none",
                          !.mg.opResult[g] = "resolved"],
                "groupRemoved", g, <<>>, {})

\* removeGroup(groupId) up to its first await
removeGroup(M, g) ==
  IF g \in M.mg.groupListeners
  THEN [stopListener(M, g) EXCEPT !.mg.groupOp[g] = "remove", !.mg.opResult[g] = "pending"]
  ELSE removeDone(M, g)

\* restartGroup(groupId) up to its first await
restartGroup(M, g) ==
  IF g \notin M.mg.groupListeners THEN [M EXCEPT !.mg.opResult[g] = "rejected"]
  ELSE [stopListener(M, g) EXCEPT !.mg.groupOp[g] = "restartStop",
                                  !.mg.opResult[g] = "pending"]

\* the owner of a running aggregator calls one of the three operations for
\* group g while no other call for g is under way
GroupOpReady(g) ==
  /\ mg.isRunning
  /\ mg.op = "none"
  /\ mg.groupOp[g] = "none"
  /\ use.groupOps < MaxGroupOps
  /\ use' = [use EXCEPT !.groupOps = @ + 1]

AddGroup(g, enabled) ==
  /\ GroupOpReady(g)
  /\ (g \notin mg.groupListeners /\ enabled) => Quiet(g)
  /\ LET M == addGroup(MCur, g, enabled)
     IN  /\ gl' = M.gl
         /\ mg' = M.mg
         /\ saves' = M.saves
         /\ mgEmitted' = M.emitted
         /\ history' = IF M.mg.groupOp[g] = "add"
                       THEN [history EXCEPT ![g] = NextRun(@)] ELSE history
  /\ UNCHANGED <<file, aaVars>>

\* initializeGroupListener returned to addGroup
AddAfterInit(g) ==
  /\ mg.groupOp[g] = "add"
  /\ gl[g].pc = "idle"
  /\ MCommit(addDone([MCur EXCEPT !.mg.stats.activeGroups = Cardinality(mg.groupListeners)],
                     g, TRUE))
  /\ UNCHANGED <<file, use, aaVars>>

RemoveGroup(g) ==
  /\ GroupOpReady(g)
  /\ MCommit(removeGroup(MCur, g))
  /\ UNCHANGED <<file, aaVars>>

\* listener.stop() returned to removeGroup
RemoveAfterStop(g) ==
  /\ mg.groupOp[g] = "remove"
  /\ gl[g].stopPc = "idle"
  /\ MCommit(removeDone(MCur, g))
  /\ UNCHANGED <<file, use, aaVars>>

\* restartGroup is called between two checks of the listener
RestartGroup(g) ==
  /\ GroupOpReady(g)
  /\ g \in mg.groupListeners => gl[g].pc = "idle" /\ gl[g].polling = 0 /\ gl[g].reconnecting = 0
  /\ MCommit(restartGroup(MCur, g))
  /\ UNCHANGED <<file, aaVars>>

\* listener.stop() returned to restartGroup: initializeGroupListener
\* constructs a new listener and its start() runs up to the first await
RestartAfterStop(g) ==
  /\ mg.groupOp[g] = "restartStop"
  /\ gl[g].stopPc = "idle"
  /\ gl' = [gl EXCEPT ![g] = StartingListener]
  /\ mg' = [mg EXCEPT !.groupOp[g] = "restartInit"]
  /\ mgEmitted' = <<>>
  /\ history' = [history EXCEPT ![g] = NextRun(@)]
  /\ UNCHANGED <<saves, file, use, aaVars>>

\* initializeGroupListener returned to restartGroup
RestartAfterInit(g) ==
  /\ mg.groupOp[g] = "restartInit"
  /\ gl[g].pc = "idle"
  /\ MCommit(MultiEmit([MCur EXCEPT !.mg.groupOp[g] = "none", !.mg.opResult[g] = "resolved"],
                       "groupRestarted", g, <<>>, {}))
  /\ UNCHANGED <<file, use, aaVars>>

\* an aggregator constructed with the configs of the groups of known, after
\* a start() in which every auth.initialize() returned false, and a stop()
InitGroups ==
  /\ settings = DefaultSettings
  /\ aa = NewAssigner
  /\ loops = [l \in LoopIds |-> IdleLoop]
  /\ initPc = "idle"
  /\ initPending = {}
  /\ emitted = {}
  /\ resets = 0
  /\ offered = 0
  /\ selected = NotApplied
  /\ \E known \in SUBSET Groups : \E enabled \in SUBSET known :
        /\ gl = [g \in Groups |-> IF g \in enabled
                                   THEN [NewListener EXCEPT !.auth = "created", !.attached = TRUE]
                                   ELSE NewListener]
        /\ mg = [NewMulti(enabled) EXCEPT
                   !.groupConfigs = ConfigsOf(known, enabled),
                   !.stats.totalGroups = Cardinality(known),
                   !.stats.startTime = "time",
                   !.groupStats = [g \in Groups |-> IF g \in enabled
                                                     THEN GroupStatsEntry("failed", 1)
                                                     ELSE NoGroupStats]]
  /\ file = DedupFile(<<>>)
  /\ saves = {}
  /\ mgEmitted = <<MEvent("multiGroupStopped", 0, <<>>, {})>>
  /\ history = NoHistory
  /\ use = [NoUse EXCEPT !.starts = MaxStarts - 1]
  /\ sys = NoSystem

\* every readJson and writeJson of the dedup file succeeds and no check fails
\* with an authentication error
NextGroups ==
  \/ MultiStart
  \/ \E g \in Groups : LoadSettled(g, FALSE)
  \/ \E s \in saves : SaveSettled(s, TRUE)
  \/ \E g \in Groups, success \in BOOLEAN : AuthSettled(g, success)
  \/ \E g \in Groups, outcome \in {"links", "error"}, links \in HotPages :
        /\ outcome # "links" => links = <<>>
        /\ FirstPollSettled(g, outcome, links)
  \/ \E g \in Groups : TimerTick(g, MaxPolls)
  \/ \E g \in Groups, outcome \in {"links", "error"}, links \in HotPages :
        /\ outcome # "links" => links = <<>>
        /\ PollSettled(g, outcome, links)
  \/ \E g \in Groups : CleanupSettled(g)
  \/ \E g \in Groups, enabled \in BOOLEAN : AddGroup(g, enabled)
  \/ \E g \in Groups : AddAfterInit(g)
  \/ \E g \in Groups : RemoveGroup(g)
  \/ \E g \in Groups : RemoveAfterStop(g)
  \/ \E g \in Groups : RestartGroup(g)
  \/ \E g \in Groups : RestartAfterStop(g)
  \/ \E g \in Groups : RestartAfterInit(g)

SpecGroups == InitGroups /\ [][NextGroups]_vars

(***************************************************************************)
(* One GroupMessageListener on its own whose extraction results mix ids    *)
(* seen before with new ones.                                              *)
(***************************************************************************)
\* extraction results: every list of at most MaxLinks of NumPollIds ids
PollPages == UNION {[1..n -> 1..NumPollIds] : n \in 0..MaxLinks}

NextPolls ==
  \/ ListenerStart(1, MaxListenerStarts)
  \/ \E threw \in BOOLEAN : LoadSettled(1, threw)
  \/ \E s \in saves, written \in BOOLEAN : SaveSettled(s, written)
  \/ \E success \in BOOLEAN : AuthSettled(1, success)
  \/ \E outcome \in PollOutcomes, links \in PollPages :
        /\ outcome # "links" => links = <<>>
        /\ FirstPollSettled(1, outcome, links)
  \/ \E success \in BOOLEAN : ReconnectSettled(1, success)
  \/ TimerTick(1, MaxListenerPolls)
  \/ \E outcome \in PollOutcomes, links \in PollPages :
        /\ outcome # "links" => links = <<>>
        /\ PollSettled(1, outcome, links)
  \/ \E success \in BOOLEAN : PollReconnectSettled(1, success)
  \/ ListenerStop(1)
  \/ CleanupSettled(1)

SpecPolls == InitListener /\ [][NextPolls]_vars

(***************************************************************************)
(* The same listener, whose owner also calls start() while it is listening *)
(* and stop() while it is not.                                             *)
(***************************************************************************)
\* start() without the isListening test of lines 29-32
startCallUnguarded(M, g) == [M EXCEPT !.gl[g].pc = "load"]

\* GroupMessageListener.start() up to its first await
startCall(M, g) ==
  IF M.gl[g].isListening THEN M ELSE [M EXCEPT !.gl[g].pc = "load"]

\* GroupMessageListener.stop() up to its first await
stopCall(M, g) ==
  IF ~M.gl[g].isListening THEN M ELSE stopListener(M, g)

\* start() is called on a listener that is listening
ListenerStartAgain(g) ==
  /\ gl[g].isListening
  /\ use.startsAgain < MaxIdleCalls
  /\ use' = [use EXCEPT !.startsAgain = @ + 1]
  /\ MCommit(startCall(MCur, g))
  /\ UNCHANGED <<file, aaVars>>

\* stop() is called on a listener that is not listening
ListenerStopAgain(g) ==
  /\ ~gl[g].isListening
  /\ use.stopsAgain < MaxIdleCalls
  /\ use' = [use EXCEPT !.stopsAgain = @ + 1]
  /\ MCommit(stopCall(MCur, g))
  /\ UNCHANGED <<file, aaVars>>

NextCalls ==
  \/ ListenerStart(1, MaxListenerStarts)
  \/ \E threw \in BOOLEAN : LoadSettled(1, threw)
  \/ \E s \in saves, written \in BOOLEAN : SaveSettled(s, written)
  \/ \E success \in BOOLEAN : AuthSettled(1, success)
  \/ \E outcome \in PollOutcomes, links \in HotPages :
        /\ outcome # "links" => links = <<>>
        /\ FirstPollSettled(1, outcome, links)
  \/ \E success \in BOOLEAN : ReconnectSettled(1, success)
  \/ TimerTick(1, MaxListenerPolls)
  \/ \E outcome \in PollOutcomes, links \in HotPages :
        /\ outcome # "links" => links = <<>>
        /\ PollSettled(1, outcome, links)
  \/ \E success \in BOOLEAN : PollReconnectSettled(1, success)
  \/ ListenerStop(1)
  \/ CleanupSettled(1)
  \/ ListenerStartAgain(1)
  \/ ListenerStopAgain(1)

SpecCalls == InitListener /\ [][NextCalls]_vars

(***************************************************************************)
(* The same listener with checks that last longer than the polling         *)
(* interval and with checks called by hand, as triggerCheck does.          *)
(***************************************************************************)
\* the setInterval callback fires whatever the earlier callbacks are doing:
\* checkGroupMessages() up to its await
TimerTickAnyway(g, budget) ==
  /\ gl[g].listenerInterval
  /\ gl[g].isListening
  /\ gl[g].auth # "null"
  /\ gl[g].polling < MaxOverlap
  /\ use.polls < budget
  /\ use' = [use EXCEPT !.polls = @ + 1]
  /\ MCommit([MCur EXCEPT !.gl[g].stats.lastCheck = "time", !.gl[g].polling = @ + 1])
  /\ UNCHANGED <<file, aaVars>>

\* triggerCheck: listener.checkGroupMessages() is called by hand, on a
\* listener whose start() has returned, and runs up to its await
ManualCheck(g, budget) ==
  /\ gl[g].pc = "idle"
  /\ gl[g].isListening
  /\ gl[g].auth # "null"
  /\ gl[g].polling < MaxOverlap
  /\ use.polls < budget
  /\ use.manualChecks < MaxManualChecks
  /\ use' = [use EXCEPT !.polls = @ + 1, !.manualChecks = @ + 1]
  /\ MCommit([MCur EXCEPT !.gl[g].stats.lastCheck = "time", !.gl[g].polling = @ + 1])
  /\ UNCHANGED <<file, aaVars>>

NextOverlap ==
  \/ ListenerStart(1, MaxListenerStarts)
  \/ \E threw \in BOOLEAN : LoadSettled(1, threw)
  \/ \E s \in saves, written \in BOOLEAN : SaveSettled(s, written)
  \/ \E success \in BOOLEAN : AuthSettled(1, success)
  \/ \E outcome \in PollOutcomes, links \in HotPages :
        /\ outcome # "links" => links = <<>>
        /\ FirstPollSettled(1, outcome, links)
  \/ \E success \in BOOLEAN : ReconnectSettled(1, success)
  \/ TimerTickAnyway(1, MaxListenerPolls)
  \/ ManualCheck(1, MaxListenerPolls)
  \/ \E outcome \in PollOutcomes, links \in HotPages :
        /\ outcome # "links" => links = <<>>
        /\ PollSettled(1, outcome, links)
  \/ \E success \in BOOLEAN : PollReconnectSettled(1, success)
  \/ ListenerStop(1)
  \/ CleanupSettled(1)

SpecOverlap == InitListener /\ [][NextOverlap]_vars

(***************************************************************************)
(* A MultiGroupListener that is started again: the aggregator after a      *)
(* start() in which auth.initialize() of every group returned false,       *)
(* followed by stop().  The groupStats entries exist from here on.         *)
(***************************************************************************)
InitRestart ==
  /\ settings = DefaultSettings
  /\ aa = NewAssigner
  /\ loops = [l \in LoopIds |-> IdleLoop]
  /\ initPc = "idle"
  /\ initPending = {}
  /\ emitted = {}
  /\ resets = 0
  /\ offered = 0
  /\ selected = NotApplied
  /\ gl = [g \in Groups |-> [NewListener EXCEPT !.auth = "created", !.attached = TRUE]]
  /\ mg = [NewMulti(Groups) EXCEPT
             !.stats.totalGroups = Cardinality(Groups),
             !.stats.startTime = "time",
             !.groupStats = [g \in Groups |-> GroupStatsEntry("failed", 1)]]
  /\ file \in {NoFile, DedupFile(<<>>)}
  /\ saves = {}
  /\ mgEmitted = <<MEvent("multiGroupStopped", 0, <<>>, {})>>
  /\ history = NoHistory
  /\ use = NoUse
  /\ sys = NoSystem

\* every readJson and writeJson of the dedup file succeeds
NextRestart ==
  \/ MultiStart
  \/ MultiStop
  \/ \E g \in Groups : LoadSettled(g, FALSE)
  \/ \E s \in saves : SaveSettled(s, TRUE)
  \/ \E g \in Groups, success \in BOOLEAN : AuthSettled(g, success)
  \/ \E g \in Groups, outcome \in PollOutcomes, links \in HotPages :
        /\ outcome # "links" => links = <<>>
        /\ FirstPollSettled(g, outcome, links)
  \/ \E g \in Groups, success \in BOOLEAN : ReconnectSettled(g, success)
  \/ \E g \in Groups : TimerTick(g, MaxPolls)
  \/ \E g \in Groups, outcome \in PollOutcomes, links \in HotPages :
        /\ outcome # "links" => links = <<>>
        /\ PollSettled(g, outcome, links)
  \/ \E g \in Groups, success \in BOOLEAN : PollReconnectSettled(g, success)
  \/ \E g \in Groups : CleanupSettled(g)

SpecRestart == InitRestart /\ [][NextRestart]_vars


----------------------------------------------------------------------------
(***************************************************************************)
(* AccountAssigner: properties.                                            *)
(***************************************************************************)
InFlight(l) == loops[l].pc \in {"details", "generate", "post"}

QueuedTweets(q) == {q[i].tweetInfo : i \in 1..Len(q)}

\* tasks assigned to account a that are in the queue or in flight
Outstanding(a) ==
  Cardinality({i \in 1..Len(aa.taskQueue) : aa.taskQueue[i].accountId = a})
    + Cardinality({l \in LoopIds : InFlight(l) /\ loops[l].task.accountId = a})

EventsOf(evs, types, tweet) == {e \in evs : e.type \in types /\ e.tweet = tweet}

\* C2: each worker's workload equals the number of its tasks in the queue or in flight.
C2_WorkloadIsOutstanding ==
  \A i \in 1..Len(aa.activeAccounts) :
     aa.activeAccounts[i].workload = Outstanding(aa.activeAccounts[i].accountId)

\* a step in which the attempt in flight on loop l ended in handleTaskError
FailedAttempt(l) ==
  /\ InFlight(l)
  /\ loops'[l].pc = "pacing"
  /\ aa'.stats.totalErrors = aa.stats.totalErrors + 1

\* C3: a failing task is retried exactly MaxRetries times after its first attempt
\* (every failure before that re-enqueues it), then one taskFailed is emitted and
\* the task is out of the queue.
C3_RetriedExactlyMaxRetries ==
  [][\A l \in LoopIds :
       FailedAttempt(l) =>
         LET task == loops[l].task
         IN IF task.retryCount < MaxRetries
              THEN /\ task.tweetInfo \in QueuedTweets(aa'.taskQueue)
                   /\ EventsOf(emitted', {"taskFailed"}, task.tweetInfo) = {}
              ELSE /\ task.tweetInfo \notin QueuedTweets(aa'.taskQueue)
                   /\ Cardinality(EventsOf(emitted', {"taskFailed"}, task.tweetInfo)) = 1]_vars

\* the tweets whose task is in the queue or in flight
Live == QueuedTweets(aa.taskQueue) \cup {loops[l].task.tweetInfo : l \in {x \in LoopIds : InFlight(x)}}

TaskEndings == {"replySuccess", "taskFailed", "declined"}

\* C4: a task leaves the queue and the drain loop only with exactly one of
\* replySuccess, taskFailed or an eligibility decline.
C4_TaskEndsWithOneOutcome ==
  [][\A t \in Tweets :
       (t \in Live /\ t \notin Live') =>
          Cardinality(EventsOf(emitted', TaskEndings, t)) = 1]_vars

\* C9: initialize() completes normally only with at least one active worker.
C9_InitializeNeedsActiveWorker ==
  /\ initPc = "resolved" => Len(aa.activeAccounts) >= 1
  /\ initPc = "rejected" => Len(aa.activeAccounts) = 0


ActiveIn(pool) == {i \in 1..Len(pool) : pool[i].status = "active"}

\* C5: selectBestAccount returns an active worker of minimum workload and, among
\* those, of earliest lastUsed with a never-used worker first; null exactly when
\* no worker is active.
C5_SelectsLeastLoadedEarliestUsed ==
  selected.applied =>
    LET pool == aa.activeAccounts
    IN /\ selected.result.found <=> ActiveIn(pool) # {}
       /\ selected.result.found =>
            \E i \in ActiveIn(pool) :
               /\ pool[i].accountId = selected.result.accountId
               /\ \A j \in ActiveIn(pool) :
                    /\ pool[i].workload <= pool[j].workload
                    /\ pool[j].workload = pool[i].workload =>
                         /\ pool[j].lastUsed = Null => pool[i].lastUsed = Null
                         /\ (pool[i].lastUsed # Null /\ pool[j].lastUsed # Null)
                              => pool[i].lastUsed <= pool[j].lastUsed

\* a used worker stands in the Map before a never-used one of the same, minimal
\* workload, beside a busier and an error worker: the never-used one is returned
C5_Witness ==
  /\ selected.applied
  /\ LET pool == aa.activeAccounts
     IN /\ Len(pool) = 3
        /\ pool[1].status = "active" /\ pool[1].lastUsed # Null
        /\ pool[2].status = "active" /\ pool[2].lastUsed = Null
        /\ pool[1].workload = pool[2].workload
        /\ pool[3].status = "error" /\ pool[3].workload < pool[1].workload
        /\ selected.result = [found |-> TRUE, accountId |-> pool[2].accountId]

\* C6: a worker whose error count reaches ErrorThreshold has status error, keeps
\* it, and no assignment or retry reassignment goes to it from then on.
C6_DemotedWorkerNeverSelected ==
  [][\A i \in 1..Len(aa'.activeAccounts) :
       LET a == aa'.activeAccounts[i]
       IN /\ a.errors >= ErrorThreshold => a.status = "error"
          /\ (i <= Len(aa.activeAccounts) /\ aa.activeAccounts[i].status = "error") =>
               /\ a.status = "error"
               /\ \A e \in emitted' :
                    e.type \in {"assigned", "reassigned"} => e.account # a.accountId]_vars

\* the assigner of InitWorn, as reached from the constructor
WornReached == aa = WornAssigner(PriorErrors) /\ \A l \in LoopIds : loops[l].pc = "none"

\* a tweet has just been assigned to a loaded worker while the demoted worker was
\* the only one with workload 0
C6_Witness ==
  \E i, j \in 1..Len(aa.activeAccounts) :
     /\ aa.activeAccounts[i].status = "error"
     /\ aa.activeAccounts[i].workload = 0
     /\ aa.activeAccounts[j].workload >= 2
     /\ {e \in emitted : e.type = "assigned"}
          = {Event("assigned", offered, aa.activeAccounts[j].accountId)}

Running == {l \in LoopIds : loops[l].pc # "none"}

\* C7: at most one task is being processed (dequeued, pacing delay not yet over).
C7_OneTaskInFlight == Cardinality(Running) <= 1

\* assignTweets has just run while the drain loop was awaiting the reply generator
\* or the post, and left a task in the queue
C7_Witness ==
  /\ \E l \in LoopIds : loops[l].pc \in {"generate", "post"}
  /\ \E e \in emitted : e.type = "assigned"
  /\ Len(aa.taskQueue) >= 1

PosIn(q, t) == CHOOSE i \in 1..Len(q) : q[i].tweetInfo = t

\* C8: only the head leaves the queue, the tasks that stay keep their order, and a
\* task that enters (new or retried) stands behind every task already queued.
C8_FifoOrder ==
  [][LET q == aa.taskQueue
         q2 == aa'.taskQueue
         stay == QueuedTweets(q) \cap QueuedTweets(q2)
     IN /\ \A t \in QueuedTweets(q) \ QueuedTweets(q2) : t = Head(q).tweetInfo
        /\ \A t, u \in stay : PosIn(q, t) < PosIn(q, u) => PosIn(q2, t) < PosIn(q2, u)
        /\ \A t \in QueuedTweets(q2) \ QueuedTweets(q) :
              \A u \in stay : PosIn(q2, u) < PosIn(q2, t)
        /\ \A l \in LoopIds :
              (loops'[l].pc = "details" /\ ~InFlight(l)) =>
                 IF Len(q) > 0 THEN loops'[l].task = Head(q)
                 ELSE loops'[l].task.tweetInfo = offered + 1]_vars

\* a retried task has just been pushed behind a task that was already queued
C8_Witness ==
  /\ Len(aa.taskQueue) >= 2
  /\ aa.taskQueue[Len(aa.taskQueue)].retryCount >= 1
  /\ aa.taskQueue[1].retryCount = 0
  /\ \E e \in emitted :
        e.type = "reassigned" /\ e.tweet = aa.taskQueue[Len(aa.taskQueue)].tweetInfo

----------------------------------------------------------------------------
(***************************************************************************)
(* TwitterMonitorSystem.start(): the AccountAssigner is initialized, then  *)
(* the MultiGroupListener is constructed and started, and only then        *)
(* setupEventListeners subscribes to the events of both.                   *)
(***************************************************************************)
\* the batches of the aggregator's newTweetsFound events, in emission order
RECURSIVE RelayedBatches(_)
RelayedBatches(evs) ==
  IF evs = <<>> THEN <<>>
  ELSE (IF Head(evs).by = "aggregator" /\ Head(evs).type = "newTweetsFound"
        THEN <<Head(evs).tweets>> ELSE <<>>) \o RelayedBatches(Tail(evs))

\* the newTweetsFound handler of setupEventListeners, once per batch:
\* assignTweets(data.tweets) up to its first await
RECURSIVE AssignBatches(_, _)
AssignBatches(r, batches) ==
  IF batches = <<>> THEN r
  ELSE AssignBatches(processTaskQueue(AssignEach(r.S, Head(batches)), r.loops), Tail(batches))

RECURSIVE TotalLen(_)
TotalLen(batches) == IF batches = <<>> THEN 0 ELSE Len(Head(batches)) + TotalLen(Tail(batches))

\* what the system does with the batches the aggregator emitted in this
\* step: nothing before setupEventListeners has subscribed
Deliver(batches) ==
  /\ IF sys.subscribed /\ batches # <<>>
     THEN LET r == AssignBatches([S |-> Cur, loops |-> loops], batches)
          IN  /\ Commit(r.S)
              /\ loops' = r.loops
              /\ offered' = offered + TotalLen(batches)
              /\ sys' = [sys EXCEPT !.handed = batches,
                                    !.totalTweetsProcessed = @ + TotalLen(batches)]
     ELSE /\ emitted' = {}
          /\ sys' = [sys EXCEPT !.handed = <<>>]
          /\ UNCHANGED <<aa, loops, offered>>
  /\ UNCHANGED <<settings, initPc, initPending, resets, selected>>

\* start() up to the await in initializeAccountAssigner: new AccountAssigner,
\* initialize() starts auth.initialize() of every enabled account
SystemStart ==
  /\ sys.pc = "idle"
  /\ initPc = "idle"
  /\ sys' = [sys EXCEPT !.pc = "assigner", !.isRunning = TRUE, !.handed = <<>>]
  /\ initPc' = "running"
  /\ initPending' = Accounts
  /\ emitted' = {}
  /\ mgEmitted' = <<>>
  /\ UNCHANGED <<settings, aa, loops, resets, offered, selected,
                 gl, mg, file, saves, history, use>>

\* start() after initialize() resolved: initializeMultiGroupListener; with
\* no enabled group there is no aggregator and start() goes on to its end
SystemStartListeners ==
  /\ sys.pc = "assigner"
  /\ initPc = "resolved"
  /\ IF mg.enabled = {}
     THEN /\ sys' = [sys EXCEPT !.pc = "running", !.handed = <<>>]
          /\ mgEmitted' = <<>>
          /\ UNCHANGED <<gl, mg, saves, history, use>>
     ELSE /\ MultiStartStep
          /\ sys' = [sys EXCEPT !.pc = "listeners", !.handed = <<>>]
  /\ emitted' = {}
  /\ UNCHANGED <<settings, aa, loops, initPc, initPending, resets, offered, selected, file>>

\* getGroupNotifications() of a first check settled while the system runs
SystemFirstPollSettled(g, outcome, links) ==
  /\ sys.isRunning
  /\ FirstPollStep(g, outcome, links)
  /\ Deliver(RelayedBatches(mgEmitted'))

\* start() after multiGroupListener.start() resolved: setupEventListeners,
\* systemStarted
SystemSubscribe ==
  /\ sys.pc = "listeners"
  /\ mg.op = "none"
  /\ sys' = [sys EXCEPT !.pc = "running", !.subscribed = TRUE, !.handed = <<>>]
  /\ mgEmitted' = <<>>
  /\ emitted' = {}
  /\ UNCHANGED <<settings, aa, loops, initPc, initPending, resets, offered, selected,
                 gl, mg, file, saves, history, use>>

InitSystem ==
  /\ settings = DefaultSettings
  /\ aa = NewAssigner
  /\ loops = [l \in LoopIds |-> IdleLoop]
  /\ initPc = "idle"
  /\ initPending = {}
  /\ emitted = {}
  /\ resets = 0
  /\ offered = 0
  /\ selected = NotApplied
  /\ gl = [g \in Groups |-> NewListener]
  /\ mg \in {NewMulti(enabled) : enabled \in SUBSET Groups}
  /\ file \in {NoFile, DedupFile(<<>>)}
  /\ saves = {}
  /\ mgEmitted = <<>>
  /\ history = NoHistory
  /\ use = NoUse
  /\ sys = NoSystem

NextSystem ==
  \/ SystemStart
  \/ \E a \in Accounts, success \in BOOLEAN : InitAccountSettled(a, success)
  \/ SystemStartListeners
  \/ \E g \in Groups, threw \in BOOLEAN : LoadSettled(g, threw)
  \/ \E s \in saves, written \in BOOLEAN : SaveSettled(s, written)
  \/ \E g \in Groups, success \in BOOLEAN : AuthSettled(g, success)
  \/ \E g \in Groups, outcome \in PollOutcomes, links \in HotPages :
        /\ outcome # "links" => links = <<>>
        /\ SystemFirstPollSettled(g, outcome, links)
  \/ SystemSubscribe

SpecSystem == InitSystem /\ [][NextSystem]_vars

----------------------------------------------------------------------------
(***************************************************************************)
(* GroupMessageListener and MultiGroupListener: properties.                *)
(***************************************************************************)
\* C1: over the poll cycles of a running listener, an id that comes back in
\* a later extraction result, or twice in one result, is carried by the
\* listener's newTweetsFound events at most once in total.
C1_EmittedAtMostOnce == \A g \in Groups : history[g].again = {}

EmittedTypes(by) == {mgEmitted[i].type : i \in {j \in 1..Len(mgEmitted) : mgEmitted[j].by = by}}

\* C10: when MultiGroupListener.start() has completed, every enabled source
\* whose session was established is in the Map with status "active", every
\* enabled source whose start failed has status "failed" and is not in the
\* Map, and one multiGroupStarted event was emitted, when no start attempt
\* was left.
C10_StartOutcome ==
  "multiGroupStarted" \in EmittedTypes("aggregator") =>
     /\ Cardinality({i \in 1..Len(mgEmitted) : mgEmitted[i].type = "multiGroupStarted"}) = 1
     /\ mgEmitted[Len(mgEmitted)].type = "multiGroupStarted"
     /\ mg.starting = {}
     /\ \A g \in mg.enabled :
          /\ gl[g].auth = "ready" =>
                g \in mg.groupListeners /\ mg.groupStats[g].status = "active"
          /\ ~gl[g].isListening =>
                g \notin mg.groupListeners /\ mg.groupStats[g].status = "failed"

IsEvent(e, by, type, g) == e.by = by /\ e.type = type /\ e.group = g

\* the listener of group g emitted an event of this type in the last step
ListenerEmitted(type, g) ==
  \E i \in 1..Len(mgEmitted) : IsEvent(mgEmitted[i], "listener", type, g)

\* every newTweetsFound event of the listener of g in the last step is
\* followed at once by the aggregator's newTweetsFound for g with the same ids
Relayed(g) ==
  \A i \in 1..Len(mgEmitted) :
     IsEvent(mgEmitted[i], "listener", "newTweetsFound", g) =>
        /\ i < Len(mgEmitted)
        /\ IsEvent(mgEmitted[i + 1], "aggregator", "newTweetsFound", g)
        /\ mgEmitted[i + 1].tweets = mgEmitted[i].tweets

\* C11: with two sources under one MultiGroupListener, a failed extraction
\* of source h leaves the listener of every other source g as it was and g
\* in the Map, whatever the number of failures of h; and the ids a source of
\* the Map newly sees are re-emitted by the aggregator in a newTweetsFound
\* event, also when the other source has failed on every poll.
C11_FailingSourceIsolated ==
  [][\A g \in Groups :
       /\ g \in mg'.groupListeners => Relayed(g)'
       /\ \A h \in Groups \ {g} :
             (ListenerEmitted("messageCheckError", h)' /\ gl'[h] # gl[h]) =>
                /\ gl'[g] = gl[g]
                /\ g \in mg.groupListeners => g \in mg'.groupListeners]_vars

\* both sources are in the Map, source 1 has failed on every poll it made,
\* and the ids source 2 found in a timer poll were re-emitted
C11_Witness ==
  /\ mg.groupListeners = {1, 2}
  /\ gl[1].stats.errors > 0
  /\ gl[1].stats.totalMessages = 0
  /\ gl[2].stats.totalMessages > 1
  /\ ListenerEmitted("newTweetsFound", 2)
  /\ \E i \in 1..Len(mgEmitted) : IsEvent(mgEmitted[i], "aggregator", "newTweetsFound", 2)

\* C12: while the system runs, every batch of newly found ids, those of the
\* first check inside start() included, is emitted by the aggregator as
\* newTweetsFound and passed to AccountAssigner.assignTweets exactly once.
C12_FoundBatchesAssignedOnce ==
  sys.isRunning =>
     \A i \in 1..Len(mgEmitted) :
        mgEmitted[i].type = "newTweetsFound" =>
           /\ \E k \in 1..Len(mgEmitted) :
                 /\ IsEvent(mgEmitted[k], "aggregator", "newTweetsFound", mgEmitted[i].group)
                 /\ mgEmitted[k].tweets = mgEmitted[i].tweets
           /\ Cardinality({j \in 1..Len(sys.handed) : sys.handed[j] = mgEmitted[i].tweets}) = 1

\* C13: an id shared in two monitored groups is emitted by the aggregator as
\* newTweetsFound, and so handed to assignTweets by the system's handler, for
\* at most one of the sources.
C13_SharedIdHandedOnce ==
  \A g \in Groups : \A h \in Groups \ {g} : history[g].relayed \cap history[h].relayed = {}

\* C14: after stop() of a listener came to its end and the same source is
\* started again, the new listener emits no id the stopped one had emitted,
\* also when other listeners of the aggregator saved their records in between.
C14_NoReemissionAfterRestart ==
  \A g \in Groups : history[g].earlier \cap history[g].once = {}

\* C15: when processTask finds the tweet younger than min_tweet_age_seconds
\* (60 by default), neither the reply generator nor postTweet is called for
\* the task, the worker's workload goes down by one, its error count and
\* totalErrors stay as they are, and the task is neither put back in the
\* queue nor reported as failed.
C15_TooYoungDeclined ==
  [][\A l \in LoopIds : \A own \in BOOLEAN : \A age \in TweetAges :
        (age < MinTweetAge /\ DetailsSettled(l, FALSE, own, age)) =>
           LET task == loops[l].task
               a == task.accountId
           IN  /\ loops'[l] = PacingLoop
               /\ GetAccount(aa'.activeAccounts, a).workload
                     = GetAccount(aa.activeAccounts, a).workload - 1
               /\ GetAccount(aa'.activeAccounts, a).errors = GetAccount(aa.activeAccounts, a).errors
               /\ aa'.stats = aa.stats
               /\ aa'.taskQueue = aa.taskQueue
               /\ \A e \in emitted' : e.type \notin {"taskFailed", "reassigned"}]_vars

\* C16: when no worker has status active, a call of assignTweets leaves the
\* task queue, every worker's workload and tasksAssigned, and totalAssignments
\* as they were.
NoActiveWorker == \A i \in 1..Len(aa.activeAccounts) : aa.activeAccounts[i].status # "active"

C16_NoActiveNoAssignment ==
  [][\A tweets \in Batches(offered) :
        (NoActiveWorker /\ AssignTweets(tweets)) =>
           /\ aa'.taskQueue = aa.taskQueue
           /\ \A i \in 1..Len(aa.activeAccounts) :
                 /\ aa'.activeAccounts[i].workload = aa.activeAccounts[i].workload
                 /\ aa'.activeAccounts[i].tasksAssigned = aa.activeAccounts[i].tasksAssigned
           /\ aa'.stats.totalAssignments = aa.stats.totalAssignments
           /\ \A a \in DOMAIN aa.stats.accountStats :
                 aa'.stats.accountStats[a].tasksAssigned = aa.stats.accountStats[a].tasksAssigned]_vars

\* the worker was demoted with a task still queued for it, and a call of
\* assignTweets found no worker
C16_Witness ==
  /\ Len(aa.activeAccounts) > 0
  /\ NoActiveWorker
  /\ \E e \in emitted : e.type = "noAccount"
  /\ aa.taskQueue # <<>>

\* the workers of the Map other than w, in Map order
OtherWorkers(accts, w) ==
  LET NotW(x) == x.accountId # w
  IN  SelectSeq(accts, NotW)

\* C17: when a task fails on worker W with its retry count still below the
\* maximum and another worker is active, the task is put back in the queue
\* assigned to the worker that the load-balancing rule selects among the
\* workers other than W.
C17_RetryGoesToAnotherWorker ==
  [][\A l \in LoopIds :
       LET task == loops[l].task
           others == OtherWorkers(aa.activeAccounts, task.accountId)
           best == selectBestAccount(others)
       IN  (FailedAttempt(l) /\ task.retryCount + 1 < MaxRetries /\ best.found) =>
              aa'.taskQueue = Append(aa.taskQueue,
                                     [tweetInfo |-> task.tweetInfo,
                                      accountId |-> best.accountId,
                                      retryCount |-> task.retryCount + 1])]_vars

\* the errors recorded for worker a
ErrorsOf(A, a) == GetAccount(A.activeAccounts, a).errors

StatusOf(A, a) == GetAccount(A.activeAccounts, a).status

\* C18 as stated: with retry_attempts 3, every attempt that fails in postTweet
\* on worker A raises A's error count and totalErrors by one, and A has
\* status error once 3 attempts have failed on it.
C18_DemotedAfterThree ==
  [][\A l \in LoopIds :
       LET a == loops[l].task.accountId
       IN  (MaxRetries = 3 /\ PostSettled(l, "threw")) =>
              /\ ErrorsOf(aa', a) = ErrorsOf(aa, a) + 1
              /\ aa'.stats.totalErrors = aa.stats.totalErrors + 1
              /\ ErrorsOf(aa', a) >= 3 => StatusOf(aa', a) = "error"]_vars

\* C18, amended: the same, A having status error once 5 attempts have failed
\* on it, and staying active below that.
C18_DemotedAfterFive ==
  [][\A l \in LoopIds :
       LET a == loops[l].task.accountId
       IN  (MaxRetries = 3 /\ PostSettled(l, "threw")) =>
              /\ ErrorsOf(aa', a) = ErrorsOf(aa, a) + 1
              /\ aa'.stats.totalErrors = aa.stats.totalErrors + 1
              /\ ErrorsOf(aa', a) >= ErrorThreshold => StatusOf(aa', a) = "error"
              /\ ErrorsOf(aa', a) < ErrorThreshold => StatusOf(aa', a) = StatusOf(aa, a)]_vars

\* the fifth failed attempt on a worker has just demoted it
C18_Witness ==
  /\ MaxRetries = 3
  /\ \E i \in 1..Len(aa.activeAccounts) :
        /\ aa.activeAccounts[i].errors = ErrorThreshold
        /\ aa.activeAccounts[i].status = "error"
        /\ Event("accountError", 0, aa.activeAccounts[i].accountId) \in emitted

C20_NoReconnectAfterAuthFailed ==
  [][\A g \in Groups :
       history[g].authFailed => gl'[g].reconnecting <= gl[g].reconnecting]_vars

\* the number of events of the given type the listener of group g emitted
\* in the last step
CountEmitted(evs, type, g) ==
  Cardinality({i \in 1..Len(evs) : IsEvent(evs[i], "listener", type, g)})

\* C21: a check whose getGroupNotifications() fails with an error that is
\* not classified as an authentication error raises the listener's error
\* counter by one, emits one messageCheckError, starts no reconnect(), and
\* leaves isListening, the timer and the dedup record as they were, so that
\* the next timer check is due as before.
C21_PlainPollFailure ==
  [][\A g \in Groups :
       /\ PollSettled(g, "error", <<>>) =>
             /\ gl'[g].stats.errors = gl[g].stats.errors + 1
             /\ CountEmitted(mgEmitted', "messageCheckError", g) = 1
             /\ gl'[g].reconnecting = gl[g].reconnecting
             /\ gl'[g].isListening = gl[g].isListening
             /\ gl'[g].listenerInterval = gl[g].listenerInterval
             /\ gl'[g].auth = gl[g].auth
             /\ gl'[g].processedTweets = gl[g].processedTweets
             /\ saves' = saves
       /\ FirstPollSettled(g, "error", <<>>) =>
             /\ gl'[g].stats.errors = gl[g].stats.errors + 1
             /\ CountEmitted(mgEmitted', "messageCheckError", g) = 1
             /\ gl'[g].pc # "reconnect"
             /\ gl'[g].isListening = gl[g].isListening
             /\ gl'[g].processedTweets = gl[g].processedTweets
             /\ saves' = saves]_vars

\* a timer check has just failed on a listener that goes on listening, with
\* an earlier check behind it that found ids
C21_Witness ==
  /\ gl[1].isListening /\ gl[1].listenerInterval
  /\ gl[1].stats.errors = 1
  /\ gl[1].stats.totalMessages > 0
  /\ gl[1].processedTweets # <<>>
  /\ gl[1].polling = 0
  /\ CountEmitted(mgEmitted, "messageCheckError", 1) = 1

\* the ids of links in the order of their first occurrence
RECURSIVE Distinct(_)
Distinct(links) ==
  IF links = <<>> THEN <<>>
  ELSE LET rest == Distinct(SubSeq(links, 1, Len(links) - 1))
       IN  IF InSeq(rest, links[Len(links)]) THEN rest ELSE Append(rest, links[Len(links)])

\* the ids of links that are not in the dedup record had, in result order
NewIn(had, links) ==
  LET NotHad(x) == ~InSeq(had, x)
  IN  Distinct(SelectSeq(links, NotHad))

\* what a check that got the result links may emit as newTweetsFound
OneBatch(g, links) ==
  LET new == NewIn(gl[g].processedTweets, links)
  IN  /\ CountEmitted(mgEmitted', "newTweetsFound", g) = IF new = <<>> THEN 0 ELSE 1
      /\ \A i \in 1..Len(mgEmitted') :
            IsEvent(mgEmitted'[i], "listener", "newTweetsFound", g) => mgEmitted'[i].tweets = new

\* C22: every check emits at most one newTweetsFound event, emits it exactly
\* when its result holds an id that is not in the dedup record, and the event
\* carries exactly the ids of the result that were not in the record before
\* the check.
C22_OneBatchOfNewIds ==
  [][\A g \in Groups : \A links \in PollPages :
       /\ PollSettled(g, "links", links) => OneBatch(g, links)
       /\ FirstPollSettled(g, "links", links) => OneBatch(g, links)]_vars

\* the second check of a listener that had emitted ids 1 and 2 has emitted
\* id 3 alone
C22_Witness ==
  /\ gl[1].processedTweets = <<1, 2, 3>>
  /\ gl[1].stats.totalMessages = 2
  /\ \E i \in 1..Len(mgEmitted) :
        IsEvent(mgEmitted[i], "listener", "newTweetsFound", 1) /\ mgEmitted[i].tweets = <<3>>

\* C23: start() on a listener that is listening and stop() on a listener
\* that is not listening change nothing: the session, the checks under
\* way, the timer, the dedup record, the file and the writes under way stay
\* as they are and no event is emitted.
C23_IdleCallsChangeNothing ==
  [][\A g \in Groups :
       ListenerStartAgain(g) \/ ListenerStopAgain(g) =>
          /\ gl' = gl
          /\ mg' = mg
          /\ file' = file
          /\ saves' = saves
          /\ mgEmitted' = <<>>
          /\ use'.polls = use.polls]_vars

\* start() was called on the listener while it was listening and stop()
\* while it was not, and the listener is running with its timer
C23_Witness ==
  /\ use.startsAgain = 1
  /\ use.stopsAgain = 1
  /\ gl[1].isListening
  /\ gl[1].listenerInterval
  /\ gl[1].auth = "ready"

\* C24: when auth.initialize() fails inside GroupMessageListener.start(),
\* the listener emits exactly one listenerError, performs no check, sets no
\* timer and is left not listening, and start() rejects: the aggregator
\* that awaited it reports groupInitError and does not register the source.
C24_SessionFailureRejectsStart ==
  [][\A g \in Groups :
       AuthSettled(g, FALSE) =>
          /\ CountEmitted(mgEmitted', "listenerError", g) = 1
          /\ ~gl'[g].isListening
          /\ ~gl'[g].listenerInterval
          /\ gl'[g].pc = "idle"
          /\ gl'[g].polling = 0
          /\ gl'[g].stats = gl[g].stats
          /\ g \notin mg'.groupListeners
          /\ \E i \in 1..Len(mgEmitted') :
                IsEvent(mgEmitted'[i], "aggregator", "groupInitError", g)]_vars

\* the start() of source 1 has just failed at the session
C24_Witness ==
  /\ CountEmitted(mgEmitted, "listenerError", 1) = 1
  /\ gl[1].auth = "created"
  /\ gl[1].pc = "idle"
  /\ ~gl[1].isListening
  /\ gl[1].stats.totalMessages = 0

\* the aggregator has a source with id g: in its registry or in its config
\* list
KnownGroup(g) ==
  \/ g \in mg.groupListeners
  \/ \E i \in 1..Len(mg.groupConfigs) : mg.groupConfigs[i].id = g

\* the registry, the config list, the statistics and the listeners are as
\* they were
AggregatorUnchanged ==
  /\ mg'.groupListeners = mg.groupListeners
  /\ mg'.groupConfigs = mg.groupConfigs
  /\ mg'.stats = mg.stats
  /\ mg'.groupStats = mg.groupStats
  /\ gl' = gl

\* C25: addGroup with the id of a source the aggregator already has, be it
\* active, failed at start or disabled in the config list, fails with an
\* error and leaves the registry, the config list, the statistics and the
\* listeners unchanged.
C25_DuplicateAddFails ==
  [][\A g \in Groups, enabled \in BOOLEAN :
       KnownGroup(g) /\ AddGroup(g, enabled) =>
          /\ mg'.opResult[g] = "rejected"
          /\ AggregatorUnchanged]_vars

\* the call for group g was rejected, changed nothing and emitted nothing
RejectedUntouched(g) ==
  /\ mg'.opResult[g] = "rejected"
  /\ AggregatorUnchanged
  /\ mgEmitted' = <<>>

\* C26: removeGroup and restartGroup with an id the aggregator does not
\* know fail with an error, change neither the config list, the registry,
\* the statistics nor the counts, and emit no groupRemoved or groupRestarted.
C26_UnknownIdFails ==
  [][\A g \in Groups :
       ~KnownGroup(g) =>
          /\ RemoveGroup(g) => RejectedUntouched(g)
          /\ RestartGroup(g) => RejectedUntouched(g)]_vars

\* a step of addGroup, removeGroup or restartGroup for group g: the call,
\* its continuations, and the steps of the start() and stop() it awaits
GroupOpStep(g) ==
  \/ \E enabled \in BOOLEAN : AddGroup(g, enabled)
  \/ AddAfterInit(g)
  \/ RemoveGroup(g)
  \/ RemoveAfterStop(g)
  \/ RestartGroup(g)
  \/ RestartAfterStop(g)
  \/ RestartAfterInit(g)
  \/ /\ mg.groupOp[g] # "none"
     /\ \/ LoadSettled(g, FALSE)
        \/ \E success \in BOOLEAN : AuthSettled(g, success)
        \/ \E outcome \in {"links", "error"}, links \in HotPages :
              FirstPollSettled(g, outcome, links)
        \/ \E s \in saves : s.group = g /\ SaveSettled(s, TRUE)
        \/ CleanupSettled(g)

Relays(evs, g) == {j \in 1..Len(evs) : IsEvent(evs[j], "aggregator", "newTweetsFound", g)}

\* C28: for every newTweetsFound event of a child listener the aggregator
\* emits exactly one newTweetsFound event with the same items in the same
\* order, tagged with the id and the priority (999 when unset) of the
\* source, and totalTweetsFound and the source's tweetsFound grow by the
\* batch size (the entry written at the end of start() replaces the
\* source's count, so the count is compared in the timer checks).
C28_EveryBatchRelayedOnce ==
  [][\A g \in Groups : \A i \in 1..Len(mgEmitted') :
       IsEvent(mgEmitted'[i], "listener", "newTweetsFound", g) =>
          LET batch == mgEmitted'[i].tweets
          IN  /\ Cardinality(Relays(mgEmitted', g)) = 1
              /\ \A j \in Relays(mgEmitted', g) :
                    /\ j > i
                    /\ mgEmitted'[j].tweets = batch
                    /\ mgEmitted'[j].sourceGroup.id = g
                    /\ mgEmitted'[j].sourceGroup.priority =
                         (IF ConfigPriority[g] = 0 THEN 999 ELSE ConfigPriority[g])
              /\ mg'.stats.totalTweetsFound = mg.stats.totalTweetsFound + Len(batch)
              /\ gl[g].pc # "poll" =>
                    mg'.groupStats[g].tweetsFound = mg.groupStats[g].tweetsFound + Len(batch)]_vars

\* the list is in ascending order of priority, an unset priority counting
\* as 999
Ascending(list) ==
  \A i, j \in 1..Len(list) :
     i < j => (IF list[i].priority = 0 THEN 999 ELSE list[i].priority)
              <= (IF list[j].priority = 0 THEN 999 ELSE list[j].priority)

\* C29: getGroupsByPriority returns every source the aggregator knows, the
\* sources whose start failed included, each with its current status, in
\* ascending order of priority with an unset priority treated as 999.
C29_EveryKnownSourceListed ==
  LET list == getGroupsByPriority(MCur)
  IN  /\ \A g \in Groups :
            mg.groupStats[g].present =>
               \E i \in 1..Len(list) :
                  list[i].id = g /\ list[i].status = mg.groupStats[g].status
      /\ Ascending(list)

\* cleanup() has come to its end and initialize() has not been called since
CleanedUp == use.cleanups > 0 /\ initPc = "idle"

\* C30: once cleanup() has completed, the worker pool and the task queue
\* are empty and stay empty, and no reply is posted (no postTweet call, no
\* replySuccess) for a task that was enqueued before the cleanup.
C30_NothingRunsAfterCleanup ==
  [][CleanedUp =>
       /\ aa.activeAccounts = <<>> /\ aa'.activeAccounts = <<>>
       /\ aa.taskQueue = <<>> /\ aa'.taskQueue = <<>>
       /\ \A l \in LoopIds : ~(loops[l].pc = "generate" /\ loops'[l].pc = "post")
       /\ \A e \in emitted' : e.type # "replySuccess"]_vars

\* the checkGroupMessages() calls of the listener of group g that have not
\* returned: the one inside start(), those of the timer and those made by
\* hand, awaiting getGroupNotifications() or reconnect()
ChecksUnderWay(g) ==
  gl[g].polling + gl[g].reconnecting + (IF gl[g].pc \in {"poll", "reconnect"} THEN 1 ELSE 0)

\* C31: within one listener a check never starts while an earlier check of
\* the same listener has not returned, also when a check lasts longer than
\* the polling interval or is triggered by hand.
C31_ChecksNeverOverlap == \A g \in Groups : ChecksUnderWay(g) <= 1

\* no checkGroupMessages() call of listener record l is awaiting
NoCheckUnderWay(l) ==
  l.polling = 0 /\ l.reconnecting = 0 /\ l.pc \notin {"poll", "reconnect"}

\* C32: a check that is under way when stop() is called finishes, its
\* newTweetsFound and its dedup update included, before the session is
\* released and before listenerStopped is emitted, and a listener emits no
\* newTweetsFound after its listenerStopped.
C32_StopWaitsForCheck ==
  [][\A g \in Groups :
       /\ (gl[g].auth # "null" /\ gl'[g].auth = "null") => NoCheckUnderWay(gl'[g])
       /\ CountEmitted(mgEmitted', "listenerStopped", g) > 0 => NoCheckUnderWay(gl'[g])
       /\ (gl[g].auth = "null" /\ gl[g].stopPc = "idle") =>
             /\ CountEmitted(mgEmitted', "newTweetsFound", g) = 0
             /\ gl'[g].processedTweets = gl[g].processedTweets]_vars

\* no drain loop is running
NoLoop == \A l \in LoopIds : loops[l].pc = "none"

\* C33: when no external call hangs, the queue is drained and the loop ends
\* with processingQueue false and an empty queue once arrivals have
\* stopped, and a task is never in the queue without a running drain loop.
C33_QueueDrains ==
  /\ [](aa.taskQueue # <<>> => aa.processingQueue /\ ~NoLoop)
  /\ <>[](aa.taskQueue = <<>> /\ ~aa.processingQueue /\ NoLoop)

\* every tweet has been handed over, replies were sent, and the loop has
\* ended
C33_Witness ==
  /\ offered = MaxTweets
  /\ aa.stats.totalAssignments = MaxTweets
  /\ aa.stats.totalRepliesSent > 1
  /\ aa.taskQueue = <<>>
  /\ ~aa.processingQueue
  /\ NoLoop

\* the ids the listener of g reported as new in the step (<<>> if none)
AddedBy(evs, g) ==
  LET found == {i \in 1..Len(evs) : IsEvent(evs[i], "listener", "newTweetsFound", g)}
  IN  IF found = {} THEN <<>> ELSE evs[CHOOSE i \in found : TRUE].tweets

\* the check of g in this step ran to its end
CheckCompleted(g) ==
  /\ CountEmitted(mgEmitted', "messageCheckCompleted", g) > 0
  /\ gl'[g].stats.totalMessages = gl[g].stats.totalMessages + 1

RelayOf(type) ==
  CASE type = "newTweetsFound" -> "newTweetsFound"
    [] type = "messageCheckCompleted" -> "groupCheckCompleted"
    [] type = "messageCheckError" -> "groupCheckError"
    [] type = "authRecovered" -> "groupAuthRecovered"
    [] type = "authFailed" -> "groupAuthFailed"
    [] type = "listenerStopped" -> "groupStopped"
    [] OTHER -> "none"

\* C35: whenever the aggregator handles an event of the listener of a
\* source, the statistics entry of the source exists and the handler
\* completes (it emits its own event), the events of the first check
\* inside the listener's start() included.
C35_HandlersFindStatistics ==
  [][\A g \in Groups : \A i \in 1..Len(mgEmitted') :
       (mgEmitted'[i].by = "listener" /\ mgEmitted'[i].group = g /\ gl[g].attached
          /\ RelayOf(mgEmitted'[i].type) # "none") =>
          /\ HasStats(MCur, g)
          /\ i < Len(mgEmitted')
          /\ IsEvent(mgEmitted'[i + 1], "aggregator", RelayOf(mgEmitted'[i].type), g)]_vars

\* no operation of the aggregator is in progress
Quiescent ==
  /\ mg.op = "none"
  /\ mg.starting = {}
  /\ \A g \in Groups : mg.groupOp[g] = "none"

\* C36: whenever no aggregator operation is in progress, the activeGroups
\* count of getStatus().summary equals the number of sources of the
\* registry whose listener is listening.
C36_ActiveCountMatchesRegistry ==
  Quiescent =>
    mg.stats.activeGroups = Cardinality({g \in mg.groupListeners : gl[g].isListening})

\* C37: a listener has at most one recurring timer, and none once stop()
\* has completed, also when stop() was called while start() was awaiting
\* the session or its first check: a listener that is not listening and
\* whose stop() is not under way has no timer.
C37_NoTimerAfterStop ==
  \A g \in Groups :
     (~gl[g].isListening /\ gl[g].stopPc = "idle") => ~gl[g].listenerInterval

\* the tasks for tweet t in the queue q and in flight in the loops lps
TasksFor(t, q, lps) ==
  Cardinality({i \in 1..Len(q) : q[i].tweetInfo = t})
    + Cardinality({l \in LoopIds : lps[l].pc \in {"details", "generate", "post"}
                                     /\ lps[l].task.tweetInfo = t})

\* C38: for each task at most one replySuccess and at most one taskFailed
\* are emitted, never both, and a task with a replySuccess is never
\* enqueued again: a tweet has at most one task, a step emits at most one
\* of the two events for it, the step that emits one ends the task, and
\* an ended task never comes back.
C38_OneEndingPerTask ==
  [][\A t \in Tweets :
       LET sent == EventsOf(emitted', {"replySuccess"}, t)
           failed == EventsOf(emitted', {"taskFailed"}, t)
       IN  /\ TasksFor(t, aa'.taskQueue, loops') <= 1
           /\ Cardinality(sent) <= 1
           /\ Cardinality(failed) <= 1
           /\ sent = {} \/ failed = {}
           /\ (sent # {} \/ failed # {}) => (t \in Live /\ t \notin Live')
           /\ (t <= offered /\ t \notin Live) => t \notin Live']_vars

\* a task has been given up with taskFailed after it was enqueued again
\* for another account, and another task has got its reply
C38_Witness ==
  /\ \E e \in emitted : e.type = "taskFailed"
  /\ resets = 0
  /\ aa.stats.totalRepliesSent >= 1

\* C39: no external call is made for a task whose worker has status error
\* when the task is dequeued: a loop goes to getTweetDetails only with a
\* task of a worker that is active, and a task of a demoted worker leaves
\* the queue without a call.
C39_DemotedWorkerMakesNoCall ==
  [][\A l \in LoopIds :
       (loops'[l].pc = "details" /\ loops[l].pc # "details") =>
          /\ HasAccount(aa'.activeAccounts, loops'[l].task.accountId)
          /\ GetAccount(aa'.activeAccounts, loops'[l].task.accountId).status = "active"
          /\ GetAccount(aa.activeAccounts, loops'[l].task.accountId).status = "active"]_vars

\* a task that was queued for a worker when the worker was demoted has been
\* dequeued and skipped
C39_Witness ==
  \E e \in emitted :
     /\ e.type = "skipped"
     /\ HasAccount(aa.activeAccounts, e.account)
     /\ GetAccount(aa.activeAccounts, e.account).status = "error"
     /\ \A l \in LoopIds : loops[l].pc \in {"none", "pacing"}

\* C40: a cleanup() called while the drain loop awaits a task or its pacing
\* delay, followed by initialize() and assignTweets(), never leaves two
\* drain loops running at the same time.
C40_OneLoopAfterReuse ==
  \A l1, l2 \in LoopIds :
     (loops[l1].pc # "none" /\ loops[l2].pc # "none") => l1 = l2

====
